---------------------------- MODULE Spec2Model ----------------------------
(***************************************************************************)
(* QSP: threshold-protected asset recovery.                                *)
(*                                                                         *)
(* The module models                                                       *)
(*   - the ThresholdSigner object (signer.py),                             *)
(*   - the SecureChannel handshake (secure_channel.py),                    *)
(*   - the RecoveryHostSession / RecoveryParticipantSession state machines *)
(*     and the message loops of their managers (recovery_session.py,       *)
(*     p2p_manager.py).                                                    *)
(*                                                                         *)
(* Abstractions.  A vector of polynomials of R_q is represented by ONE     *)
(* coefficient of Z_q (ring dimension 1, k = l = 1); q, gamma1, gamma2,    *)
(* beta and eta keep their values.  Hashes (SHA-256, SHAKE-256) are        *)
(* injective tags or small mixing functions; a lattice signature is a      *)
(* record naming the secret key and the hash it answers.                   *)
(***************************************************************************)
EXTENDS Integers, Sequences, FiniteSets, TLC

\* Python's None: "None" where the values are strings, the empty tuple where
\* they are numbers (Some(v) is the value v)
NoVal == "None"
None == <<>>
Some(v) == <<v>>
Val(o) == o[1]

(***************************************************************************)
(* Lattice parameters (config.py).                                         *)
(***************************************************************************)
Q == 8380417
ETA == 2
BETA == 250
GAMMA2 == (Q - 1) \div 8
GAMMA1 == (Q - 1) \div 2
ALPHA == 2 * GAMMA2

Abs(x) == IF x < 0 THEN 0 - x ELSE x

\* LatticeUtils.center_mod: representative of c mod q in [-q/2, q/2)
center_mod(c, q) ==
    LET r == c % q IN IF 2 * r >= q THEN r - q ELSE r

\* LatticeUtils.low_bits: c = HighBits*alpha + LowBits, LowBits in (-alpha/2, alpha/2]
low_bits(c, alpha, q) ==
    LET r  == c % q
        r0 == r % alpha
    IN IF 2 * r0 > alpha THEN r0 - alpha ELSE r0

\* LatticeUtils.high_bits
high_bits(c, alpha, q) ==
    ((c % q) - low_bits(c, alpha, q)) \div alpha

\* polymul_rq in ring dimension 1: the product of the two coefficients mod q
\* (computed on the centred representatives, which keeps it in machine range)
polymul_rq(a, b) == (center_mod(a, Q) * center_mod(b, Q)) % Q

poly_add(a, b, q) == (a + b) % q
poly_sub(a, b, q) == (a - b) % q

\* KeyGenerator.expand_a(rho): the one coefficient of the shared matrix A
ACoef == 2

(***************************************************************************)
(* Keys.  A secret key is named by a string; S1/S2 give its coefficients   *)
(* (in [-eta, eta]).                                                       *)
(***************************************************************************)
SKs == {"skH", "skA", "skB", "skC", "skX"}
S1(sk) == CASE sk = "skH" -> 1 [] sk = "skA" -> 2 [] sk = "skB" -> 0 - 2
            [] sk = "skC" -> 0
            \* a key file whose s1 is not a small polynomial
            [] sk = "skBig" -> GAMMA1 - BETA
            [] OTHER -> 0 - 1
S2(sk) == CASE sk = "skH" -> 0 - 1 [] sk = "skA" -> 1 [] sk = "skB" -> 0
            [] sk = "skC" -> 0 - 2 [] OTHER -> 2
\* the public key that belongs to a secret key
PkOf(sk) == CASE sk = "skH" -> "pkH" [] sk = "skA" -> "pkA" [] sk = "skB" -> "pkB"
              [] sk = "skC" -> "pkC" [] OTHER -> "pkX"

(***************************************************************************)
(* Threshold signer (signer.py, class ThresholdSigner).                    *)
(***************************************************************************)
\* first byte of SHAKE-256(message || encode(W_HighBits) || ts8)
Shake256(message, wh, ts) == (31 * message + 7 * (wh % 256) + 3 * ts + 1) % 256

\* _derive_challenge / derive_challenge: +1 for an odd byte, -1 otherwise
DeriveChallenge(message, wh, ts) ==
    IF Shake256(message, wh, ts) % 2 = 1 THEN 1 ELSE 0 - 1

\* phase1_commitment: w = center(A*y)
Commitment(y) == center_mod(polymul_rq(ACoef, y % Q), Q)

\* message_data of phase2_response: a pair (message, ts), the bytes
\* message || ts8, bytes shorter than 8 (timestamp 0), or another type
MdKinds == {"tuple", "bytes", "short", "bad"}
ParseMessageData(md) ==
    CASE md.kind = "tuple" -> [ok |-> TRUE, message |-> md.message, ts |-> md.ts]
      [] md.kind = "bytes" -> [ok |-> TRUE, message |-> md.message, ts |-> md.ts]
      [] md.kind = "short" -> [ok |-> TRUE, message |-> md.message, ts |-> 0]
      [] OTHER -> [ok |-> FALSE, message |-> md.message, ts |-> 0]

\* a sampling that would let a norm equal to its bound through
Phase2ZInclusive(sk, y, message, ts, wsum) ==
    LET c  == DeriveChallenge(message, high_bits(wsum, ALPHA, Q), ts)
        z  == poly_add(y, polymul_rq(c % Q, S1(sk) % Q), Q)
        Ay == polymul_rq(ACoef, y % Q)
        R  == poly_sub(Ay, polymul_rq(c % Q, S2(sk) % Q), Q)
    IN IF Abs(center_mod(z, Q)) > GAMMA1 - BETA THEN None
       ELSE IF Abs(low_bits(center_mod(R, Q), ALPHA, Q)) > GAMMA2 - BETA THEN None
       ELSE Some(z)

\* the rejection sampling of phase2_response: z, or None for a reject
Phase2Z(sk, y, message, ts, wsum) ==
    LET c  == DeriveChallenge(message, high_bits(wsum, ALPHA, Q), ts)
        z  == poly_add(y, polymul_rq(c % Q, S1(sk) % Q), Q)
        Ay == polymul_rq(ACoef, y % Q)
        R  == poly_sub(Ay, polymul_rq(c % Q, S2(sk) % Q), Q)
    IN IF Abs(center_mod(z, Q)) >= GAMMA1 - BETA THEN None
       ELSE IF Abs(low_bits(center_mod(R, Q), ALPHA, Q)) >= GAMMA2 - BETA THEN None
       ELSE Some(z)

\* a signer that would keep y after a response
Phase2KeepsY(y) == y
\* the finally clause of phase2_response: self.y = None
Phase2DropsY(y) == None

\* phase2_response as a whole: the outcome, z, and self.y afterwards.  The
\* two argument checks come before the try: they raise and leave y alone.
phase2_response(sk, y, md, wsum) ==
    IF y = None \/ wsum = None
    THEN [outcome |-> "raise", z |-> None, y |-> y]
    ELSE LET p == ParseMessageData(md)
         IN IF ~p.ok
            THEN [outcome |-> "raise", z |-> None, y |-> Phase2DropsY(y)]
            ELSE LET z == Phase2Z(sk, Val(y), p.message, p.ts, Val(wsum))
                 IN [outcome |-> IF z = None THEN "reject" ELSE "z",
                     z |-> z, y |-> Phase2DropsY(y)]

(***************************************************************************)
(* Single-party signature and KEM, as the handshake uses them              *)
(* (signer.py class LatticeSigner, encryptor.py).                          *)
(***************************************************************************)
\* SHA-256(message || encode(w)): an injective tag of the message
Sha256(message) == <<"sha256", message>>

\* LatticeSigner.sign: z answers the challenge derived from c_hash under sk
sign(sk, message) ==
    [zsk |-> sk, zc |-> Sha256(message), c_hash |-> Sha256(message)]

\* LatticeSigner.verify: check 1 recomputes c_hash from the message; check 2
\* is the lattice relation A*z - c*t ~ alpha*w under pk for the recomputed c
verify(pk, message, sig) ==
    /\ sig.c_hash = Sha256(message)
    /\ sig.zc = Sha256(message)
    /\ PkOf(sig.zsk) = pk

\* LatticeEncryptor._lwe_encrypt_key
lwe_encrypt_key(pk, key) == [to |-> pk, key |-> key]

\* LatticeEncryptor._lwe_decrypt_key: always 256 decoded bits, the key when
\* sk matches the recipient and noise (key 0 here) when it does not
GarbledKey == 0
lwe_decrypt_key(sk, kem) ==
    IF PkOf(sk) = kem.to THEN kem.key ELSE GarbledKey

(***************************************************************************)
(* SecureChannel (secure_channel.py).                                      *)
(***************************************************************************)
TIMESTAMP_TOLERANCE == 60

\* setup_host_session_signed: the handshake packet for session key `key`
setup_host_session_signed(target_pk, my_sk, key, now) ==
    LET payload == [ts |-> now, kem |-> lwe_encrypt_key(target_pk, key)]
    IN [parses |-> TRUE, payload |-> payload, sig |-> sign(my_sk, payload)]

\* a channel that would not look at the timestamp
StaleNever(now, ts) == FALSE
\* the timestamp check of setup_participant_session_verified
Stale(now, ts) == Abs(now - ts) > TIMESTAMP_TOLERANCE

\* a channel that would install the decapsulated key before the timestamp check
setup_participant_session_eager(ch, handshake_data, my_sk, peer_pk, now) ==
    LET reject == [ok |-> FALSE, session_key |-> ch.session_key,
                   peer_verified |-> ch.peer_verified]
    IN IF ~handshake_data.parses THEN reject
       ELSE IF ~verify(peer_pk, handshake_data.payload, handshake_data.sig) THEN reject
       ELSE IF Stale(now, handshake_data.payload.ts)
       THEN [ok |-> FALSE,
             session_key |-> Some(lwe_decrypt_key(my_sk, handshake_data.payload.kem)),
             peer_verified |-> ch.peer_verified]
       ELSE [ok |-> TRUE,
             session_key |-> Some(lwe_decrypt_key(my_sk, handshake_data.payload.kem)),
             peer_verified |-> TRUE]

\* setup_participant_session_verified on a channel holding (key, verified):
\* the result and the channel afterwards
setup_participant_session_verified(ch, handshake_data, my_sk, peer_pk, now) ==
    LET reject == [ok |-> FALSE, session_key |-> ch.session_key,
                   peer_verified |-> ch.peer_verified]
    IN IF ~handshake_data.parses THEN reject
       ELSE IF ~verify(peer_pk, handshake_data.payload, handshake_data.sig) THEN reject
       ELSE IF Stale(now, handshake_data.payload.ts) THEN reject
       ELSE [ok |-> TRUE,
             session_key |-> Some(lwe_decrypt_key(my_sk, handshake_data.payload.kem)),
             peer_verified |-> TRUE]

(***************************************************************************)
(* Input domains.                                                          *)
(***************************************************************************)
\* commitment secrets: a small one, and the largest of the sampling range
\* GAMMA1 >> 3, whose A*y has low bits alpha/2 and is rejected
YSmall == 5
YEdge == GAMMA1 \div 8
YVals == {YSmall, YEdge}
FileHash == 11
TsBase == 100
MaxTs == 1
TsVals == TsBase .. (TsBase + MaxTs)
WSums == {Some(center_mod(Commitment(y1) + Commitment(y2), Q)) : y1, y2 \in YVals}
MsgData == [kind : MdKinds, message : {FileHash}, ts : TsVals]

\* session keys a host may draw (get_random_bytes)
MaxKeys == 2
SessionKeys == 1 .. MaxKeys
\* the clock readings around a timestamp ts that the tolerance tells apart
NowAround(ts) == {ts - (TIMESTAMP_TOLERANCE + 1), ts - TIMESTAMP_TOLERANCE, ts,
                  ts + TIMESTAMP_TOLERANCE, ts + TIMESTAMP_TOLERANCE + 1}

\* handshake packets on the wire: emitted by a key holder, and the same with
\* the timestamp of the payload rewritten, with c_hash overwritten, or cut
\* so that it no longer unpickles
EmittedHandshakes ==
    {setup_host_session_signed(to, sk, k, TsBase) :
        to \in {"pkA", "pkX"}, sk \in {"skH", "skX"}, k \in SessionKeys}
TamperTs(h, ts) == [h EXCEPT !.payload.ts = ts]
TamperHash(h) == [h EXCEPT !.sig.c_hash = <<"invalid_hash_value">>]
Truncate(h) == [h EXCEPT !.parses = FALSE]
WireHandshakes ==
    EmittedHandshakes
    \cup {TamperTs(h, TsBase + TIMESTAMP_TOLERANCE + 1) : h \in EmittedHandshakes}
    \cup {TamperHash(h) : h \in EmittedHandshakes}
    \cup {Truncate(h) : h \in EmittedHandshakes}

(***************************************************************************)
(* Recovery session: constants and pure parts (recovery_session.py,        *)
(* reconstructor.py, config.py).                                           *)
(***************************************************************************)
IDLE == "IDLE"
WAITING_COMMITMENTS == "WAITING_COMMITMENTS"
WAITING_RESPONSES == "WAITING_RESPONSES"
RECONSTRUCTING == "RECONSTRUCTING"
FINISHED == "FINISHED"
SessionState == <<IDLE, WAITING_COMMITMENTS, WAITING_RESPONSES, RECONSTRUCTING, FINISHED>>
\* SessionState.value
StateValue(st) == CHOOSE i \in 1 .. 5 : SessionState[i] = st

\* Config.T_THRESHOLD: the threshold t written to the manifest and read by
\* reconstruct_from_memory
T_THRESHOLD == 3
\* the first CRT modulus of Config.MODULI
Modulus == 257

\* the manifest passed to start_recovery: the public keys of its registry
RegistryKeys == {"pkA", "pkB", "pkC"}

\* invitation slots the Host opens: n_invited = t
MaxSlots == T_THRESHOLD
Slots == 1 .. MaxSlots

\* the session key the Host draws for a handshake on slot idx towards pk;
\* the holder of skX can decapsulate exactly the keys sent to pkX
HostKey(idx, pk) == IF pk = "pkX" THEN MaxSlots + idx ELSE idx
\* the key pair of the participant invited into slot idx
PartSk(idx) == <<"skA", "skB", "skC">>[idx]
PartPk(idx) == PkOf(PartSk(idx))

\* payloads a peer may send
WVals == {Commitment(YSmall)}
ZGood == YSmall + 2
ZVals == {ZGood, GAMMA1 - BETA}
RawShare == 7
ShareVals == {RawShare, Modulus}

\* RecoveryHostSession._find_in_manifest: with no manifest loaded every key
\* gets the placeholder entry; afterwards the key must be in the registry
FindInManifest(manifest, pk) ==
    IF manifest = NoVal THEN TRUE ELSE pk \in RegistryKeys

\* SignatureAggregator.aggregate_w_shares: the centered sum
RECURSIVE SumSeq(_)
SumSeq(q) == IF q = <<>> THEN 0 ELSE Head(q) + SumSeq(Tail(q))
aggregate_w_shares(w_shares) == center_mod(SumSeq(w_shares), Q)
\* SignatureAggregator.aggregate_responses: the plain sum
aggregate_responses(z_shares) == SumSeq(z_shares)

\* a verification that would hold the sum to the range of one sampled y
verify_final_signature_one_share(Z, c, message, ts, wsum) ==
    /\ Abs(center_mod(Z, Q)) < (GAMMA1 \div 8) + BETA
    /\ DeriveChallenge(message, high_bits(wsum, ALPHA, Q), ts) = c

\* SignatureAggregator.verify_final_signature with W_sum given
verify_final_signature(Z, c, message, ts, wsum) ==
    /\ Abs(center_mod(Z, Q)) < GAMMA1 - BETA
    /\ DeriveChallenge(message, high_bits(wsum, ALPHA, Q), ts) = c

\* ImageCRTReconstructor.reconstruct_from_memory: TRUE when it returns an
\* image, FALSE when it raises (too few shares, a residue >= its modulus)
reconstruct_from_memory(shares) ==
    /\ Len(shares) >= T_THRESHOLD
    /\ \A i \in 1 .. T_THRESHOLD : shares[i] < Modulus

(***************************************************************************)
(* State.                                                                  *)
(***************************************************************************)
VARIABLES
    sg_y,       \* ThresholdSigner.y of the signer under test
    sg_log,     \* the calls made on it so far, in order
    ch,         \* a SecureChannel: [session_key, peer_verified]
    ch_last,    \* its last handshake call: <<>> or <<[inputs and result]>>
    \* RecoveryHostSession
    state,              \* self.state
    managers,           \* self.managers: per slot, the channel of its peer
    peers_data,         \* self.peers_data: per slot, what the peer delivered
    target_manifest,    \* self.target_manifest (and target_file_hash)
    my_commitment,      \* self.my_commitment
    my_y,               \* self.my_signer.y
    my_z,               \* self.my_z
    h_out,              \* what the last Host step sent
    \* RecoveryParticipantSession, one per invitation slot
    parts,              \* per participant: host_pk, carrier, channel, signer
    p_out,              \* the packets the last Participant step sent
    \* the datagrams in flight, per slot and direction
    net_h,              \* towards the manager of the Host
    net_p,              \* towards the Participant
    \* history of the Host session, kept for the statement of the barriers
    r_w,                \* slots whose commitment arrived since start_recovery
    r_z,                \* slots whose response arrived since the last challenge
    \* one call of the rejection sampling: <<>> or <<[inputs and result]>>
    rj,
    \* ReliableUDPSocket, sending side
    expected_ack,       \* self.expected_ack: <<>> or <<(msg_id, chunk_idx)>>
    expected_ack_addr,  \* self.expected_ack_addr: <<>> or <<addr>>
    ack_event,          \* self.ack_event: is the flag set
    snd,                \* per sending thread, where it is in send
    lis,                \* the ACK the listener thread is working on
    heard,              \* the ACKs the socket has received so far
    \* ReliableUDPSocket, receiving side
    peer_addr,          \* self.peer_addr
    processed_packets,  \* self.processed_packets, oldest first
    old_n,              \* how many of them are more than 60 s old
    buffer_pool,        \* buffer_pool of _listen_loop: (pool_key, idx, content)
    meta_pool,          \* meta_pool of _listen_loop: (pool_key, total)
    recv_queue,         \* self.recv_queue
    got,                \* what recv() has returned so far
    \* the datagrams in flight between the two sockets
    wire,
    \* one reconstruction of a split image: <<>> or <<[inputs and result]>>
    crt,
    \* one call of the single-party lattice code: <<>> or <<[inputs and result]>>
    lat,
    \* history of the managers of the Host, kept for the statement of C28
    r_bad,              \* slots that received a SECURE packet with a bad tag
    r_disp,             \* <<>> or <<the slot whose message the last step dispatched>>
    \* the manifest of a locked asset and what the recovery paths found in it
    man,
    \* history of the receiving socket: the chunks that have arrived, and the
    \* last arrival with what it did
    dup,
    \* the threads of the Host session around self.lock
    lock,               \* self.lock: <<>> when free, <<t>> when thread t holds it
    thr,                \* per thread, where it is in its call and its locals
    \* one P2PManager: self.peers, and what its last call did
    mgr,
    \* how often the Host has called on_success (counted up to 2)
    succ

sgvars == <<sg_y, sg_log>>
chvars == <<ch, ch_last>>
hvars == <<state, managers, peers_data, target_manifest, my_commitment, my_y,
           my_z, h_out>>
pvars == <<parts, p_out>>
netvars == <<net_h, net_p>>
rvars == <<r_w, r_z>>
sendvars == <<expected_ack, expected_ack_addr, ack_event, snd, lis, heard>>
recvvars == <<peer_addr, processed_packets, old_n, buffer_pool, meta_pool,
              recv_queue, got>>
uvars == <<sendvars, recvvars, wire>>
tagvars == <<r_bad, r_disp>>
lkvars == <<lock, thr>>
auxvars == <<rvars, rj, uvars, crt, lat, tagvars, man, dup, lkvars, mgr, succ>>
vars == <<sg_y, sg_log, ch, ch_last, state, managers, peers_data,
          target_manifest, my_commitment, my_y, my_z, h_out, parts, p_out,
          net_h, net_p, r_w, r_z, rj, expected_ack, expected_ack_addr,
          ack_event, snd, lis, heard, peer_addr, processed_packets, old_n,
          buffer_pool, meta_pool, recv_queue, got, wire, crt, lat, r_bad, r_disp, man, dup, lock, thr, mgr, succ>>

(***************************************************************************)
(* Specification of one ThresholdSigner object under arbitrary calls.      *)
(***************************************************************************)
MaxOps == 4

SgIdle ==
    /\ sg_y = None
    /\ sg_log = <<>>

\* SecureChannel.__init__
ChIdle ==
    /\ ch = [session_key |-> None, peer_verified |-> FALSE]
    /\ ch_last = <<>>

\* RecoveryHostSession.__init__
HostIdle ==
    /\ state = IDLE
    /\ managers = <<>>
    /\ peers_data = <<>>
    /\ target_manifest = NoVal
    /\ my_commitment = None
    /\ my_y = None
    /\ my_z = None
    /\ h_out = <<>>

\* RecoveryParticipantSession.__init__, and an empty network
NewParticipant ==
    [host_pk |-> NoVal, carrier |-> <<>>, session_key |-> None,
     peer_verified |-> FALSE, established |-> FALSE, y |-> None,
     signed |-> "none"]
PartIdle ==
    /\ parts = [i \in Slots |-> NewParticipant]
    /\ p_out = <<>>
NetIdle ==
    /\ net_h = [i \in Slots |-> <<>>]
    /\ net_p = [i \in Slots |-> <<>>]
\* no commitment and no response has arrived yet
RoundIdle ==
    /\ r_w = {}
    /\ r_z = {}
    /\ rj = <<>>

\* the addresses (ip, port) of the sockets, and the sending threads
AddrS == <<"ipS", 1>>
AddrR == <<"ipR", 1>>
AddrR2 == <<"ipR", 2>>
AddrX == <<"ipX", 1>>
Threads == {1, 2}
\* a thread that is not in send
Resting == [pc |-> "rest", dest |-> AddrR, msg_id |-> 0, data |-> <<>>, i |-> 0,
            attempt |-> 0, sent |-> <<>>, result |-> NoVal]

\* the threads that call into the Host session: thread 0 is the thread of
\* the application (create_invitation, start_recovery), thread idx is the
\* message thread of the manager of slot idx
\* the invitations of a session in the specifications that bound them
RoundSlots == 2
LkThreads == 0 .. RoundSlots
LkResting == [pc |-> "idle", idx |-> 0, type |-> NoVal, pk |-> NoVal, val |-> 0,
              snap |-> <<>>]

\* ReliableUDPSocket.__init__ of both sockets, nothing in flight; no image
\* has been reconstructed
RudpIdle ==
    /\ expected_ack = None
    /\ expected_ack_addr = None
    /\ ack_event = FALSE
    /\ snd = [t \in Threads |-> Resting]
    /\ lis = <<>>
    /\ heard = {}
    /\ peer_addr = None
    /\ processed_packets = <<>>
    /\ old_n = 0
    /\ buffer_pool = {}
    /\ meta_pool = {}
    /\ recv_queue = <<>>
    /\ got = <<>>
    /\ wire = {}
    /\ crt = <<>>
    /\ lat = <<>>
    /\ r_bad = {}
    /\ r_disp = <<>>
    /\ man = <<>>
    /\ dup = [seen |-> {}, last |-> <<>>]
    /\ lock = <<>>
    /\ thr = [t \in LkThreads |-> LkResting]
    /\ mgr = [kind |-> NoVal, peers |-> <<>>, opened |-> {}, last |-> <<>>]
    /\ succ = 0

SgInit ==
    SgIdle /\ ChIdle /\ HostIdle /\ PartIdle /\ NetIdle /\ RoundIdle /\ RudpIdle

\* ThresholdSigner.phase1_commitment
SgPhase1 ==
    /\ Len(sg_log) < MaxOps
    /\ \E y \in YVals :
        /\ sg_y' = Some(y)
        /\ sg_log' = Append(sg_log, [op |-> "phase1", outcome |-> "w",
                                     z |-> None, w |-> Some(Commitment(y))])

\* ThresholdSigner.phase2_response
SgPhase2 ==
    /\ Len(sg_log) < MaxOps
    /\ \E md \in MsgData, wsum \in WSums \cup {None} :
        LET r == phase2_response("skA", sg_y, md, wsum)
        IN /\ sg_y' = r.y
           /\ sg_log' = Append(sg_log, [op |-> "phase2", outcome |-> r.outcome,
                                        z |-> r.z, w |-> wsum])

SgNext ==
    \/ SgPhase1 /\ UNCHANGED <<chvars, hvars, pvars, netvars, auxvars>>
    \/ SgPhase2 /\ UNCHANGED <<chvars, hvars, pvars, netvars, auxvars>>

SpecSigner == SgInit /\ [][SgNext]_vars

\* C4 (as stated): after any call of phase2_response, whether it returned z,
\* returned a reject or raised, y is None.
C4_YNoneAfterAnyCall ==
    (Len(sg_log) > 0 /\ sg_log[Len(sg_log)].op = "phase2") => sg_y = None

\* a call that computed a response (returned z or a reject)
Computed(e) == e.op = "phase2" /\ e.outcome \in {"z", "reject"}

\* C4 (amended): y is None after every call of phase2_response that got past
\* its two argument checks; every call that computes a response (z or reject)
\* directly follows a phase1_commitment or a call that raised on a missing
\* global_Ay_sum, with no computed response in between: no two responses are
\* computed from one y, and a call on a consumed y raises and yields no z.
C4_YUsedOnce ==
    /\ \A i \in 1 .. Len(sg_log) :
          /\ (sg_log[i].op = "phase2" /\ sg_log[i].outcome = "raise")
                => sg_log[i].z = None
          /\ Computed(sg_log[i]) =>
                \E j \in 1 .. (i - 1) :
                    /\ sg_log[j].op = "phase1"
                    /\ \A k \in (j + 1) .. (i - 1) :
                          /\ sg_log[k].op = "phase2"
                          /\ sg_log[k].outcome = "raise"
                          /\ sg_log[k].w = None
    /\ (Len(sg_log) > 0 /\ sg_log[Len(sg_log)].op = "phase2"
          /\ sg_log[Len(sg_log)].w # None) => sg_y = None

\* witness of C4: a z was returned, and the next call on the same signer raised
C4_Witness ==
    \E i \in 1 .. (Len(sg_log) - 1) :
        /\ sg_log[i].op = "phase2" /\ sg_log[i].outcome = "z"
        /\ sg_log[i + 1].op = "phase2" /\ sg_log[i + 1].outcome = "raise"
        /\ sg_log[i + 1].w # None
        /\ sg_y = None

(***************************************************************************)
(* Specification of one SecureChannel object under arbitrary handshakes.   *)
(***************************************************************************)
\* SecureChannel.setup_host_session_signed: the channel caches a fresh key
ChSetupHost ==
    \E k \in SessionKeys :
        /\ ch' = [ch EXCEPT !.session_key = Some(k)]
        /\ ch_last' = <<>>

\* SecureChannel.setup_participant_session_verified
ChAccept ==
    \E h \in WireHandshakes, my_sk \in {"skA", "skX"}, peer_pk \in {"pkH", "pkX"},
       now \in NowAround(TsBase) :
        LET r == setup_participant_session_verified(ch, h, my_sk, peer_pk, now)
        IN /\ ch' = [session_key |-> r.session_key, peer_verified |-> r.peer_verified]
           /\ ch_last' = <<[h |-> h, my_sk |-> my_sk, peer_pk |-> peer_pk,
                            now |-> now, ok |-> r.ok]>>

ChNext ==
    \/ ChSetupHost /\ UNCHANGED <<sgvars, hvars, pvars, netvars, auxvars>>
    \/ ChAccept /\ UNCHANGED <<sgvars, hvars, pvars, netvars, auxvars>>

SpecChan == SgInit /\ [][ChNext]_vars

\* the packets a holder of the secret key of pk emits with timestamp ts
\* C7: a handshake is accepted (true is returned and the session key is
\* installed) only if the packet parses, its signature over the payload
\* verifies under the given peer public key, its timestamp is at most 60 s
\* from now, and the installed key is a key of 32 bytes (a value, never None).
C7_AcceptOnlyVerified ==
    \A i \in 1 .. Len(ch_last) :
        ch_last[i].ok =>
            /\ ch_last[i].h.parses
            /\ verify(ch_last[i].peer_pk, ch_last[i].h.payload, ch_last[i].h.sig)
            /\ Abs(ch_last[i].now - ch_last[i].h.payload.ts) <= TIMESTAMP_TOLERANCE
            /\ ch.session_key # None
            /\ ch.peer_verified

\* C7, the three rejections: delivered 61 s after ts, payload or c_hash
\* modified after signing, signed by an unrelated key.
C7_Rejects ==
    \A i \in 1 .. Len(ch_last) :
        LET c == ch_last[i] IN
        /\ c.now = c.h.payload.ts + TIMESTAMP_TOLERANCE + 1 => ~c.ok
        /\ c.h \notin EmittedHandshakes => ~c.ok
        /\ PkOf(c.h.sig.zsk) # c.peer_pk => ~c.ok

\* C7 as a whole
C7_Handshake == C7_AcceptOnlyVerified /\ C7_Rejects

\* witness of C7: a handshake of the host was accepted exactly 60 s after its
\* timestamp and the key it carried is installed
C7_Witness ==
    /\ Len(ch_last) = 1
    /\ ch_last[1].ok
    /\ ch_last[1].peer_pk = "pkH"
    /\ ch_last[1].now = ch_last[1].h.payload.ts + TIMESTAMP_TOLERANCE
    /\ ch_last[1].my_sk = "skA"
    /\ ch_last[1].h.payload.kem.to = "pkA"
    /\ ch.session_key = Some(ch_last[1].h.payload.kem.key)

(***************************************************************************)
(* RecoveryHostSession and the message loop of its managers.               *)
(***************************************************************************)
\* a message the Host sends: a HANDSHAKE to one slot or a broadcast
OutMsg(type, dest, pk, ts, w) ==
    [type |-> type, dest |-> dest, pk |-> pk, ts |-> ts, w |-> w]

\* P2PManager.broadcast: the peers of the managers whose flag is set
Established(mgrs) == {i \in 1 .. Len(mgrs) : mgrs[i].established}
Broadcast(mgrs, type, ts, w) ==
    IF Established(mgrs) = {} THEN <<>> ELSE <<OutMsg(type, 0, NoVal, ts, w)>>

\* the slots with d.get('verified')
Active(pd) == {i \in 1 .. Len(pd) : pd[i].verified}
RECURSIVE SeqOf(_, _, _)
\* the values f[i] for i in the set S, in index order
SeqOf(f, S, n) ==
    IF n = 0 THEN <<>>
    ELSE IF n \in S THEN Append(SeqOf(f, S, n - 1), f[n])
    ELSE SeqOf(f, S, n - 1)
ActiveW(pd) == SeqOf([i \in 1 .. Len(pd) |-> Val(pd[i].w)], Active(pd), Len(pd))
ActiveZ(pd) == SeqOf([i \in 1 .. Len(pd) |-> Val(pd[i].z)], Active(pd), Len(pd))
ActiveShares(pd) == SeqOf([i \in 1 .. Len(pd) |-> Val(pd[i].share)], Active(pd), Len(pd))

\* RecoveryHostSession.create_invitation
create_invitation ==
    /\ Len(managers) < MaxSlots
    /\ managers' = Append(managers, [session_key |-> None, established |-> FALSE])
    /\ peers_data' = Append(peers_data,
            [verified |-> FALSE, pk |-> NoVal, w |-> None, z |-> None, share |-> None])
    /\ h_out' = <<>>
    /\ UNCHANGED <<state, target_manifest, my_commitment, my_y, my_z>>

\* the guard of start_recovery on the number of verified peers
EnoughVerifiedAtStart(pd) == Cardinality(Active(pd)) # 0

\* RecoveryHostSession.start_recovery
start_recovery ==
    IF Len(managers) > 0 /\ EnoughVerifiedAtStart(peers_data)
    THEN /\ target_manifest' = "manifest"
         /\ state' = WAITING_COMMITMENTS
         /\ \E y \in YVals :
             /\ my_y' = Some(y)
             /\ my_commitment' = Some(Commitment(y))
         /\ h_out' = Broadcast(managers, "REQ_COMMITMENT", 0, None)
         /\ UNCHANGED <<managers, peers_data, my_z>>
    ELSE /\ h_out' = <<>>
         /\ UNCHANGED <<state, managers, peers_data, target_manifest,
                        my_commitment, my_y, my_z>>

\* _check_phase1_complete once the commitment of slot idx is stored in pd
check_phase1_complete(pd, mgrs) ==
    IF \E i \in Active(pd) : pd[i].w = None
    THEN /\ h_out' = <<>>
         /\ UNCHANGED <<state, my_y, my_z>>
    ELSE IF my_commitment = None
    THEN \* aggregate_w_shares raises on the missing commitment of the Host
         /\ h_out' = <<>>
         /\ UNCHANGED <<state, my_y, my_z>>
    ELSE LET ts == TsBase
             w_sum == aggregate_w_shares(<<Val(my_commitment)>> \o ActiveW(pd))
             r == phase2_response("skH", my_y,
                      [kind |-> "bytes", message |-> FileHash, ts |-> ts], Some(w_sum))
         IN /\ h_out' = Broadcast(mgrs, "BROAD_CHALLENGE", ts, Some(w_sum))
            /\ state' = WAITING_RESPONSES
            /\ my_y' = r.y
            /\ my_z' = IF r.outcome = "raise" THEN my_z ELSE r.z

\* the test of _check_phase2_complete before the Host asks for the shares
Phase2Complete(pd) == \A i \in Active(pd) : pd[i].z # None

\* _check_phase2_complete once the response of slot idx is stored in pd
check_phase2_complete(pd, mgrs) ==
    IF ~Phase2Complete(pd)
    THEN /\ h_out' = <<>>
         /\ UNCHANGED state
    ELSE /\ h_out' = Broadcast(mgrs, "REQ_SHARE", 0, None)
         /\ state' = RECONSTRUCTING

\* _check_phase3_complete once the share of slot idx is stored in pd
check_phase3_complete(pd) ==
    /\ h_out' = <<>>
    /\ IF \E i \in Active(pd) : pd[i].share = None
       THEN UNCHANGED state
       ELSE IF reconstruct_from_memory(ActiveShares(pd))
       THEN state' = FINISHED
       ELSE UNCHANGED state

\* RecoveryHostSession._handle_message(idx, msg_type, payload); mgrs is
\* self.managers as the message loop left it
handle_message(idx, msg_type, pk, val, mgrs) ==
    CASE msg_type = "HELLO" ->
            IF FindInManifest(target_manifest, pk)
            THEN /\ peers_data' = [peers_data EXCEPT ![idx].pk = pk]
                 /\ managers' = [mgrs EXCEPT ![idx].session_key = Some(HostKey(idx, pk))]
                 /\ h_out' = <<OutMsg("HANDSHAKE", idx, pk, TsBase, None)>>
                 /\ UNCHANGED <<state, target_manifest, my_commitment, my_y, my_z>>
            ELSE /\ managers' = mgrs
                 /\ h_out' = <<>>
                 /\ UNCHANGED <<state, peers_data, target_manifest, my_commitment,
                                my_y, my_z>>
      [] msg_type = "HANDSHAKE" ->
            /\ peers_data' = IF peers_data[idx].pk # NoVal
                             THEN [peers_data EXCEPT ![idx].verified = TRUE]
                             ELSE peers_data
            /\ managers' = mgrs
            /\ h_out' = <<>>
            /\ UNCHANGED <<state, target_manifest, my_commitment, my_y, my_z>>
      [] msg_type = "RES_COMMITMENT" ->
            /\ managers' = mgrs
            /\ UNCHANGED <<target_manifest, my_commitment>>
            /\ IF ~peers_data[idx].verified
               THEN /\ h_out' = <<>>
                    /\ UNCHANGED <<state, peers_data, my_y, my_z>>
               ELSE LET pd == [peers_data EXCEPT ![idx].w = Some(val)]
                    IN /\ peers_data' = pd
                       /\ check_phase1_complete(pd, mgrs)
      [] msg_type = "RES_RESPONSE" ->
            LET pd == [peers_data EXCEPT ![idx].z = Some(val)]
            IN /\ peers_data' = pd
               /\ managers' = mgrs
               /\ check_phase2_complete(pd, mgrs)
               /\ UNCHANGED <<target_manifest, my_commitment, my_y, my_z>>
      [] msg_type = "RES_SHARE" ->
            LET pd == [peers_data EXCEPT ![idx].share = Some(val)]
            IN /\ peers_data' = pd
               /\ managers' = mgrs
               /\ check_phase3_complete(pd)
               /\ UNCHANGED <<target_manifest, my_commitment, my_y, my_z>>
      [] OTHER ->
            /\ managers' = mgrs
            /\ h_out' = <<>>
            /\ UNCHANGED <<state, peers_data, target_manifest, my_commitment,
                           my_y, my_z>>

\* a packet on the wire: a cleartext HELLO or HANDSHAKE, or a SECURE
\* packet sealed under key that wraps an inner message of some type
Packet(outer, key, type, pk, val, ts, w) ==
    [outer |-> outer, key |-> key, type |-> type, pk |-> pk, val |-> val,
     ts |-> ts, w |-> w]
Clear(outer, pk) == Packet(outer, None, NoVal, pk, 0, 0, None)
Secure(key, type, pk, val, ts, w) == Packet("SECURE", key, type, pk, val, ts, w)

\* LanP2PManager._message_loop of the manager of slot idx, for one packet
mgr_message_loop(idx, pkt) ==
    IF pkt.outer \in {"HELLO", "HANDSHAKE"}
    THEN handle_message(idx, pkt.outer, pkt.pk, 0, managers)
    ELSE IF /\ pkt.outer = "SECURE"
            /\ managers[idx].session_key # None
            /\ pkt.key = managers[idx].session_key
    THEN handle_message(idx, pkt.type, pkt.pk, pkt.val,
                        [managers EXCEPT ![idx].established = TRUE])
    ELSE \* no key on the channel, a tag that does not verify, unknown type
         /\ h_out' = <<>>
         /\ UNCHANGED <<state, managers, peers_data, target_manifest,
                        my_commitment, my_y, my_z>>

\* what the peer of slot idx may put into a message of each type: the peer
\* of a slot in BadSlots sends anything, the others send well-formed values
BadSlots == {1}
InnerTypes == {"HELLO", "HANDSHAKE", "RES_COMMITMENT", "RES_RESPONSE", "RES_SHARE", "ERROR"}
PayloadVals(idx, msg_type) ==
    CASE msg_type = "RES_COMMITMENT" -> WVals
      [] msg_type = "RES_RESPONSE" -> IF idx \in BadSlots THEN ZVals ELSE {ZGood}
      [] msg_type = "RES_SHARE" -> IF idx \in BadSlots THEN ShareVals ELSE {RawShare}
      [] OTHER -> {0}
PayloadKeys(idx, msg_type) ==
    IF msg_type # "HELLO" THEN {NoVal}
    ELSE IF idx \in BadSlots THEN {PartPk(idx), "pkX"} ELSE {PartPk(idx)}

\* a cleartext HELLO or HANDSHAKE reaches the manager of slot idx
MgrRecvClear(idx) ==
    /\ idx <= Len(managers)
    /\ \E msg_type \in {"HELLO", "HANDSHAKE"} :
        \E pk \in PayloadKeys(idx, msg_type) :
            mgr_message_loop(idx, Clear(msg_type, pk))

\* a SECURE packet sealed under the key of the channel reaches it
MgrRecvSecure(idx) ==
    /\ idx <= Len(managers)
    /\ managers[idx].session_key # None
    /\ \E msg_type \in InnerTypes :
        \E pk \in PayloadKeys(idx, msg_type), val \in PayloadVals(idx, msg_type) :
            mgr_message_loop(idx,
                Secure(managers[idx].session_key, msg_type, pk, val, 0, None))

\* a SECURE packet sealed under another key, or a packet of unknown type
MgrRecvUndecryptable(idx) ==
    /\ idx <= Len(managers)
    /\ \E outer \in {"SECURE", "PING"} :
        mgr_message_loop(idx, Packet(outer, Some(GarbledKey), "RES_SHARE", NoVal,
                                     RawShare, 0, None))

Init ==
    SgIdle /\ ChIdle /\ HostIdle /\ PartIdle /\ NetIdle /\ RoundIdle /\ RudpIdle
Next ==
    \/ create_invitation /\ UNCHANGED <<sgvars, chvars, pvars, netvars, auxvars>>
    \/ start_recovery /\ UNCHANGED <<sgvars, chvars, pvars, netvars, auxvars>>
    \/ \E idx \in Slots : MgrRecvClear(idx) /\ UNCHANGED <<sgvars, chvars, pvars, netvars, auxvars>>
    \/ \E idx \in Slots : MgrRecvSecure(idx) /\ UNCHANGED <<sgvars, chvars, pvars, netvars, auxvars>>
    \/ \E idx \in Slots : MgrRecvUndecryptable(idx) /\ UNCHANGED <<sgvars, chvars, pvars, netvars, auxvars>>
Spec == Init /\ [][Next]_vars

(***************************************************************************)
(* Claims on the Host session.                                             *)
(***************************************************************************)
\* C1: in every run of RecoveryHostSession, whatever arrives, state changes
\* only by one step forward along IDLE -> WAITING_COMMITMENTS ->
\* WAITING_RESPONSES -> RECONSTRUCTING -> FINISHED: no skip, no step back.
C1_OneStepForward ==
    [][state' # state => StateValue(state') = StateValue(state) + 1]_vars

\* the aggregate of all responses, the one of the Host included
AggregateZ(pd) == aggregate_responses(<<Val(my_z)>> \o ActiveZ(pd))
\* verify_final_signature on what the Host holds when phase 2 completes
SignatureVerified(pd) ==
    /\ my_commitment # None
    /\ my_z # None
    /\ \A i \in Active(pd) : pd[i].w # None /\ pd[i].z # None
    /\ LET w_sum == aggregate_w_shares(<<Val(my_commitment)>> \o ActiveW(pd))
           c == DeriveChallenge(FileHash, high_bits(w_sum, ALPHA, Q), TsBase)
       IN verify_final_signature(AggregateZ(pd), c, FileHash, TsBase, w_sum)

\* C2: the Host enters (or is in) RECONSTRUCTING / broadcasts REQ_SHARE only
\* with every response present, its own included, and the aggregate Z
\* passing verify_final_signature.
C2_SharesOnlyAfterVerification ==
    [][(state' = RECONSTRUCTING /\ state # RECONSTRUCTING) => SignatureVerified(peers_data')]_vars

\* C3: the Host broadcasts BROAD_CHALLENGE / leaves WAITING_COMMITMENTS only
\* with at least t verified peers.
C3_ThresholdBeforeChallenge ==
    [][(state = WAITING_COMMITMENTS /\ state' # WAITING_COMMITMENTS)
            => Cardinality(Active(peers_data')) >= T_THRESHOLD]_vars

\* C8: the Host records a public key (and sends a HANDSHAKE) only for a key
\* of the registry of the manifest, whenever the HELLO arrives.
C8_OnlyRegistryKeys ==
    /\ \A i \in 1 .. Len(peers_data) :
            peers_data[i].pk # NoVal => peers_data[i].pk \in RegistryKeys
    /\ \A k \in 1 .. Len(h_out) :
            h_out[k].type = "HANDSHAKE" => h_out[k].pk \in RegistryKeys

\* C9: a slot is verified only after a message of its peer was authenticated
\* under the session key (the flag of the peer is set by a SECURE packet that
\* decrypts); no cleartext message makes a slot verified.
C9_VerifiedOnlyAuthenticated ==
    \A i \in 1 .. Len(peers_data) :
        peers_data[i].verified => managers[i].established

(***************************************************************************)
(* Share encryption (encryptor.py) and the carrier of a Participant.       *)
(***************************************************************************)
RECURSIVE Xor(_, _)
\* bytes(a ^ b ...): bitwise exclusive or
Xor(a, b) ==
    IF a = 0 THEN b
    ELSE IF b = 0 THEN a
    ELSE (((a % 2) + (b % 2)) % 2) + 2 * Xor(a \div 2, b \div 2)

\* shake_256(session_key).digest(n): the keystream of a session key
Keystream(key) == key

\* LatticeEncryptor.encrypt_data with its random session key made explicit
encrypt_data(target_pk, session_key, raw) ==
    [cipher_key |-> lwe_encrypt_key(target_pk, session_key),
     cipher_data |-> Xor(raw, Keystream(session_key))]

\* LatticeEncryptor.decrypt_data: the stream is not authenticated, whatever
\* key comes out of the decapsulation yields some bytes
decrypt_data(sk, package) ==
    Xor(package.cipher_data, Keystream(lwe_decrypt_key(sk, package.cipher_key)))

\* share.to_bytes() of another share dictionary that still unpickles
AlteredShare == Xor(RawShare, 3)
\* pickle.loads(dec_bytes) succeeds on the bytes of a share dictionary only
IsSharePickle(bytes) == bytes \in {RawShare, AlteredShare}

\* the manifest entry of the dealt share: sha256(raw_share_bytes)
share_fingerprint == Sha256(RawShare)

\* what extract_share_bytes may find in a carrier: the package the dealer
\* embedded for pk, the same with bits of cipher_data flipped, and a
\* package made for another recipient
Carriers(pk) ==
    LET dealt == {encrypt_data(pk, k, RawShare) : k \in SessionKeys}
    IN dealt
       \cup {[c EXCEPT !.cipher_data = Xor(@, 3)] : c \in dealt}
       \cup {encrypt_data("pkX", k, RawShare) : k \in SessionKeys}

(***************************************************************************)
(* RecoveryParticipantSession and the message loop of its manager.         *)
(***************************************************************************)
\* RecoveryParticipantSession.join_session: the HELLO goes out in cleartext
join_session(i, carrier, host_pk) ==
    /\ parts' = [parts EXCEPT ![i].carrier = <<carrier>>, ![i].host_pk = host_pk,
                              ![i].signed = "none"]
    /\ p_out' = <<Clear("HELLO", PartPk(i))>>

\* P2PManager.send_secure_message of participant i, whose channel is ch_i
send_secure_message(ch_i, type, val) ==
    IF ch_i.session_key = None THEN <<>>
    ELSE <<Secure(ch_i.session_key, type, NoVal, val, 0, None)>>

\* the approver of a Participant: not set, accepts, declines
Approvers == {"unset", "accept", "decline"}

\* RecoveryParticipantSession._handle_message(msg_type, payload) of
\* participant i; me is parts[i] as the message loop left it
part_handle_message(i, me, pkt, approver, y_new) ==
    CASE pkt.type = "HANDSHAKE" ->
            \* no host_pk: return; otherwise self.mgr.channel does not
            \* exist, the AttributeError is caught and logged
            /\ parts' = [parts EXCEPT ![i] = me]
            /\ p_out' = <<>>
      [] pkt.type = "REQ_COMMITMENT" ->
            /\ parts' = [parts EXCEPT ![i] = [me EXCEPT !.y = Some(y_new)]]
            /\ p_out' = send_secure_message(me, "RES_COMMITMENT", Commitment(y_new))
      [] pkt.type = "BROAD_CHALLENGE" ->
            IF approver = "decline"
            THEN /\ parts' = [parts EXCEPT ![i] = [me EXCEPT !.signed = "declined"]]
                 /\ p_out' = <<>>
            ELSE LET r == phase2_response(PartSk(i), me.y,
                              [kind |-> "bytes", message |-> pkt.val, ts |-> pkt.ts],
                              pkt.w)
                 IN /\ parts' = [parts EXCEPT ![i] =
                            [me EXCEPT !.y = r.y,
                                       !.signed = IF r.outcome = "z" THEN "z"
                                                  ELSE "rejected"]]
                    /\ p_out' = IF r.outcome = "z"
                                THEN send_secure_message(me, "RES_RESPONSE", Val(r.z))
                                ELSE <<>>
      [] pkt.type = "REQ_SHARE" ->
            /\ parts' = [parts EXCEPT ![i] = me]
            /\ p_out' = IF me.carrier = <<>> THEN <<>>
                        ELSE LET dec_bytes == decrypt_data(PartSk(i), me.carrier[1])
                             IN IF IsSharePickle(dec_bytes)
                                THEN send_secure_message(me, "RES_SHARE", dec_bytes)
                                ELSE <<>>
      [] OTHER ->
            /\ parts' = [parts EXCEPT ![i] = me]
            /\ p_out' = <<>>

\* P2PManager._message_loop of participant i, for one packet
part_message_loop(i, pkt, approver, y_new) ==
    IF pkt.outer = "HANDSHAKE"
    THEN part_handle_message(i, parts[i], [pkt EXCEPT !.type = "HANDSHAKE"],
                             approver, y_new)
    ELSE IF /\ pkt.outer = "SECURE"
            /\ parts[i].session_key # None
            /\ pkt.key = parts[i].session_key
    THEN part_handle_message(i, [parts[i] EXCEPT !.established = TRUE], pkt,
                             approver, y_new)
    ELSE /\ p_out' = <<>>
         /\ UNCHANGED parts

\* the application hands a HANDSHAKE it received to the channel of the
\* server address: setup_participant_session_verified on that channel
PartChannelAccept(i) ==
    /\ parts[i].host_pk # NoVal
    /\ \E h \in WireHandshakes, now \in {TsBase, TsBase + TIMESTAMP_TOLERANCE + 1} :
        LET r == setup_participant_session_verified(
                    [session_key |-> parts[i].session_key,
                     peer_verified |-> parts[i].peer_verified],
                    h, PartSk(i), parts[i].host_pk, now)
        IN parts' = [parts EXCEPT ![i].session_key = r.session_key,
                                  ![i].peer_verified = r.peer_verified]
    /\ p_out' = <<>>

\* the Participant of slot i joins a session, of the Host or of another key
PartJoin(i) ==
    \E carrier \in Carriers(PartPk(i)), host_pk \in {"pkH", "pkX"} :
        join_session(i, carrier, host_pk)

\* what the holder of the session key may send to a Participant
ChallengeW == {Some(aggregate_w_shares(<<Commitment(y1), Commitment(y2)>>)) :
                    y1 \in {YSmall}, y2 \in YVals} \cup {None}
PartInnerTypes == {"HANDSHAKE", "REQ_COMMITMENT", "BROAD_CHALLENGE", "REQ_SHARE", "ERROR"}

\* a cleartext packet reaches the manager of participant i
PartRecvClear(i) ==
    \E outer \in {"HANDSHAKE", "HELLO"} :
        part_message_loop(i, Clear(outer, "pkH"), "unset", YSmall)

\* a SECURE packet sealed under the key of its channel reaches it
PartRecvSecure(i) ==
    /\ parts[i].session_key # None
    /\ \E type \in PartInnerTypes, w \in ChallengeW, approver \in Approvers,
          y_new \in YVals :
        /\ type # "BROAD_CHALLENGE" => (w = None /\ approver = "unset")
        /\ type # "REQ_COMMITMENT" => y_new = YSmall
        /\ part_message_loop(i,
                Secure(parts[i].session_key, type, NoVal, FileHash, TsBase, w),
                approver, y_new)

\* a SECURE packet sealed under another key reaches it
PartRecvUndecryptable(i) ==
    part_message_loop(i, Secure(Some(MaxKeys + 1), "REQ_SHARE", NoVal, 0, 0, None),
                      "unset", YSmall)

PartNext ==
    \/ PartJoin(1) /\ UNCHANGED <<sgvars, chvars, hvars, netvars, auxvars>>
    \/ PartChannelAccept(1) /\ UNCHANGED <<sgvars, chvars, hvars, netvars, auxvars>>
    \/ PartRecvClear(1) /\ UNCHANGED <<sgvars, chvars, hvars, netvars, auxvars>>
    \/ PartRecvSecure(1) /\ UNCHANGED <<sgvars, chvars, hvars, netvars, auxvars>>
    \/ PartRecvUndecryptable(1) /\ UNCHANGED <<sgvars, chvars, hvars, netvars, auxvars>>

SpecPart == Init /\ [][PartNext]_vars

(***************************************************************************)
(* Claims on the Participant session.                                      *)
(***************************************************************************)
\* C5: a Participant sends RES_SHARE only after the threshold signing of
\* the session succeeded for it (it answered a BROAD_CHALLENGE with z).
C5_ShareOnlyAfterSigning ==
    \A i \in Slots : \A k \in 1 .. Len(p_out) :
        (p_out[k].type = "RES_SHARE" /\ p_out[k].key = parts[i].session_key)
            => parts[i].signed = "z"

\* C6: a Participant answering REQ_SHARE never sends a share whose SHA-256
\* differs from the share_fingerprint of the manifest.
C6_ShareMatchesFingerprint ==
    \A k \in 1 .. Len(p_out) :
        p_out[k].type = "RES_SHARE" => Sha256(p_out[k].val) = share_fingerprint

(***************************************************************************)
(* A recovery run of the Host with t honest Participants over a network    *)
(* that delivers every datagram.                                           *)
(***************************************************************************)
\* the packets the Host step just made, as they reach slot j
Delivered(out, mgrs, j) ==
    IF out = <<>> THEN <<>>
    ELSE LET m == out[1]
         IN IF m.type = "HANDSHAKE"
            THEN IF m.dest = j THEN <<Clear("HANDSHAKE", m.pk)>> ELSE <<>>
            ELSE IF j \in Established(mgrs)
            THEN <<Secure(mgrs[j].session_key, m.type, NoVal, FileHash, m.ts, m.w)>>
            ELSE <<>>

LiveInvite ==
    /\ Len(managers) < MaxSlots
    /\ create_invitation
    /\ UNCHANGED <<pvars, netvars, sgvars, chvars, auxvars>>

\* participant i joins with the invitation of its slot, its own carrier and
\* the public key of the Host
LiveJoin(i) ==
    /\ i <= Len(managers)
    /\ parts[i].host_pk = NoVal
    /\ join_session(i, encrypt_data(PartPk(i), (i % MaxKeys) + 1, RawShare), "pkH")
    /\ net_h' = [net_h EXCEPT ![i] = @ \o p_out']
    /\ UNCHANGED <<hvars, net_p, sgvars, chvars, auxvars>>

\* the transport delivers the next datagram to the manager of slot i
LiveHostRecv(i) ==
    /\ i <= Len(managers)
    /\ net_h[i] # <<>>
    /\ mgr_message_loop(i, Head(net_h[i]))
    /\ net_h' = [net_h EXCEPT ![i] = Tail(@)]
    /\ net_p' = [j \in Slots |-> net_p[j] \o Delivered(h_out', managers', j)]
    /\ UNCHANGED <<pvars, sgvars, chvars, auxvars>>

\* the transport delivers the next datagram to participant i, whose
\* approver accepts
LivePartRecv(i) ==
    /\ net_p[i] # <<>>
    /\ part_message_loop(i, Head(net_p[i]), "accept", YSmall)
    /\ net_p' = [net_p EXCEPT ![i] = Tail(@)]
    /\ net_h' = [net_h EXCEPT ![i] = @ \o p_out']
    /\ UNCHANGED <<hvars, sgvars, chvars, auxvars>>

\* the operator starts the recovery once the HELLO exchange is over: every
\* invited participant was matched and every datagram was delivered
HelloExchangeDone ==
    /\ Len(managers) = MaxSlots
    /\ \A i \in Slots : peers_data[i].pk # NoVal /\ net_h[i] = <<>> /\ net_p[i] = <<>>
LiveStart ==
    /\ HelloExchangeDone
    /\ state = IDLE
    /\ start_recovery
    /\ net_p' = [j \in Slots |-> net_p[j] \o Delivered(h_out', managers', j)]
    /\ UNCHANGED <<pvars, net_h, sgvars, chvars, auxvars>>

LiveNext ==
    \/ LiveInvite
    \/ \E i \in Slots : LiveJoin(i)
    \/ \E i \in Slots : LiveHostRecv(i)
    \/ \E i \in Slots : LivePartRecv(i)
    \/ LiveStart

\* every thread keeps running: the operator, each message loop, the transport
LiveFairness ==
    /\ WF_vars(LiveInvite)
    /\ WF_vars(LiveStart)
    /\ \A i \in Slots : WF_vars(LiveJoin(i))
    /\ \A i \in Slots : WF_vars(LiveHostRecv(i))
    /\ \A i \in Slots : WF_vars(LivePartRecv(i))

SpecLive == Init /\ [][LiveNext]_vars /\ LiveFairness

\* C10: in such a run the Host eventually reaches RECONSTRUCTING and then
\* FINISHED.
C10_EventuallyFinished ==
    <>(state = RECONSTRUCTING /\ <>(state = FINISHED))

(***************************************************************************)
(* Phase gating of the Host inputs.                                        *)
(***************************************************************************)
\* the fields of slot i that the step changed
Recorded(i, field) ==
    /\ i <= Len(peers_data)
    /\ peers_data'[i][field] # peers_data[i][field]

\* C11: the Host accepts each input only in its phase: a slot is added only
\* in IDLE, a commitment is recorded only in WAITING_COMMITMENTS, a response
\* only in WAITING_RESPONSES, a share only in RECONSTRUCTING.
C11_InputsOnlyInPhase ==
    [][/\ Len(managers') > Len(managers) => state = IDLE
       /\ \A i \in Slots :
            /\ Recorded(i, "w") => state = WAITING_COMMITMENTS
            /\ Recorded(i, "z") => state = WAITING_RESPONSES
            /\ Recorded(i, "share") => state = RECONSTRUCTING]_vars

(***************************************************************************)
(* The Host session with the history of its rounds: which commitments      *)
(* arrived since the latest start_recovery, which responses since the      *)
(* latest challenge.                                                       *)
(***************************************************************************)

\* the last Host step broadcast a message of this type
Sent(out, type) == \E k \in 1 .. Len(out) : out[k].type = type

\* _message_loop opens the packet: the channel has a key and the tag verifies
Opens(idx, pkt) ==
    /\ pkt.outer = "SECURE"
    /\ managers[idx].session_key # None
    /\ pkt.key = managers[idx].session_key

\* the packets that may reach the manager of slot idx
RoundPackets(idx) ==
    {Clear(t, pk) : t \in {"HELLO", "HANDSHAKE"}, pk \in {PartPk(idx)}}
    \cup UNION {{Secure(managers[idx].session_key, t, NoVal, val, 0, None) :
                    val \in PayloadVals(idx, t)} :
                 t \in {"RES_COMMITMENT", "RES_RESPONSE", "RES_SHARE"}}

RoundInvite ==
    /\ Len(managers) < RoundSlots
    /\ create_invitation
    /\ UNCHANGED rvars

\* start_recovery opens a round: nothing has arrived for it yet
RoundStart ==
    /\ start_recovery
    /\ IF Len(managers) > 0 /\ EnoughVerifiedAtStart(peers_data)
       THEN r_w' = {} /\ r_z' = {}
       ELSE UNCHANGED rvars

\* one packet reaches the manager of slot idx
RoundDeliver(idx) ==
    /\ idx <= Len(managers)
    /\ \E pkt \in RoundPackets(idx) :
        /\ mgr_message_loop(idx, pkt)
        /\ r_w' = IF /\ Opens(idx, pkt)
                     /\ pkt.type = "RES_COMMITMENT"
                     /\ peers_data[idx].verified
                  THEN r_w \cup {idx} ELSE r_w
        /\ r_z' = IF Sent(h_out', "BROAD_CHALLENGE") THEN {}
                  ELSE IF Opens(idx, pkt) /\ pkt.type = "RES_RESPONSE"
                  THEN r_z \cup {idx} ELSE r_z

RoundNext ==
    \/ RoundInvite /\ UNCHANGED <<sgvars, chvars, pvars, netvars, lkvars, mgr, succ, man, dup, tagvars, lat, rj, uvars, crt>>
    \/ RoundStart /\ UNCHANGED <<sgvars, chvars, pvars, netvars, lkvars, mgr, succ, man, dup, tagvars, lat, rj, uvars, crt>>
    \/ \E idx \in 1 .. RoundSlots :
        RoundDeliver(idx) /\ UNCHANGED <<sgvars, chvars, pvars, netvars, lkvars, mgr, succ, man, dup, tagvars, lat, rj, uvars, crt>>

SpecRound == Init /\ [][RoundNext]_vars

\* C12: the phase boundaries are barriers: when the Host broadcasts
\* BROAD_CHALLENGE every verified participant has delivered a commitment of
\* the current round and W is the sum of exactly those and the Host's own;
\* when the Host ends phase 2 (REQ_SHARE) every verified participant has
\* delivered a response to the current challenge.
C12_Barriers ==
    /\ Sent(h_out, "BROAD_CHALLENGE") =>
        /\ Active(peers_data) \subseteq r_w
        /\ h_out[1].w = Some(aggregate_w_shares(
                            <<Val(my_commitment)>> \o ActiveW(peers_data)))
    /\ Sent(h_out, "REQ_SHARE") => Active(peers_data) \subseteq r_z
(***************************************************************************)
(* The rejection sampling of ThresholdSigner.phase2_response as a          *)
(* function of its inputs.                                                 *)
(***************************************************************************)
\* values of self.y: those of the sampling range of phase1_commitment
\* (up to GAMMA1 >> 3), among them the ones that put the low bits of A*y on
\* their bound, and values around GAMMA1 - BETA, which put z on its bound
YLowEdge == (GAMMA2 - BETA) \div 2
YReject ==
    {YSmall, YEdge, YLowEdge - 1, YLowEdge, YLowEdge + 1}
    \cup ((GAMMA1 - BETA - 3) .. (GAMMA1 - BETA + 3))

\* one call of phase2_response on a signer that holds y
RejCall ==
    \E sk \in SKs, y \in YReject, ts \in TsVals, wsum \in WSums :
        rj' = <<[sk |-> sk, y |-> y, ts |-> ts, wsum |-> wsum,
                 r |-> phase2_response(sk, Some(y),
                          [kind |-> "tuple", message |-> FileHash, ts |-> ts],
                          wsum)]>>

RejNext ==
    RejCall /\ UNCHANGED <<sgvars, chvars, hvars, pvars, netvars, lkvars, mgr, succ, man, dup, tagvars, lat, rvars, uvars, crt>>

SpecReject == Init /\ [][RejNext]_vars

\* the challenge of the call, and the two norms the specification bounds
RejChallenge(e) ==
    DeriveChallenge(FileHash, high_bits(Val(e.wsum), ALPHA, Q), e.ts)
RejZNorm(e) == Abs(center_mod(e.y + RejChallenge(e) * S1(e.sk), Q))
RejLowNorm(e) ==
    Abs(low_bits(center_mod(ACoef * e.y - RejChallenge(e) * S2(e.sk), Q), ALPHA, Q))

\* C13: phase2_response returns a response z only when the centred norm of z
\* is below gamma1 - beta and the norm of LowBits(A*y - c*s2) is below
\* gamma2 - beta; when either norm equals or exceeds its bound it returns
\* None (a reject) and no z.
C13_RejectionBounds ==
    rj # <<>> =>
        LET e == rj[1]
            inside == /\ RejZNorm(e) < GAMMA1 - BETA
                      /\ RejLowNorm(e) < GAMMA2 - BETA
        IN /\ e.r.outcome = "z" =>
                /\ inside
                /\ e.r.z = Some((e.y + RejChallenge(e) * S1(e.sk)) % Q)
                /\ Abs(center_mod(Val(e.r.z), Q)) < GAMMA1 - BETA
           /\ ~inside => e.r.outcome = "reject" /\ e.r.z = None
           /\ e.r.outcome \in {"z", "reject"}

\* witness of C13: a call whose z has centred norm exactly gamma1 - beta was
\* rejected
C13_Witness ==
    /\ rj # <<>>
    /\ RejZNorm(rj[1]) = GAMMA1 - BETA
    /\ rj[1].r.outcome = "reject"
    /\ rj[1].r.z = None
(***************************************************************************)
(* Rejected responses.                                                     *)
(***************************************************************************)
\* the step ran phase2_response of the Host's own signer, which consumed y
\* and returned a reject
HostRejected ==
    /\ my_y # None
    /\ my_y' = None
    /\ my_z' = None

\* C14: when a phase-2 response is rejected (here the one of the Host's own
\* signer) the session restarts phase 1 with fresh commitments from all
\* parties: the Host is back in WAITING_COMMITMENTS and has asked for them;
\* it does not wait in WAITING_RESPONSES for the rejected response.
C14_RejectRestartsPhase1 ==
    [][HostRejected =>
        /\ state' = WAITING_COMMITMENTS
        /\ Sent(h_out', "REQ_COMMITMENT")
        /\ my_y' # None]_vars
(***************************************************************************)
(* ReliableUDPSocket (rudp.py).  A payload is a sequence of bytes; the     *)
(* chunk size MTU - HEADER_SIZE is scaled down to ChunkSize.               *)
(***************************************************************************)
MAX_RETRIES == 10
ChunkSize == 2

\* send: the number of chunks of a payload, and chunk i of it
NumChunks(data) ==
    LET n == (Len(data) + ChunkSize - 1) \div ChunkSize
    IN IF n = 0 THEN 1 ELSE n
Chunk(data, i) ==
    LET start == i * ChunkSize
        end == IF start + ChunkSize < Len(data) THEN start + ChunkSize ELSE Len(data)
    IN SubSeq(data, start + 1, end)

\* the datagrams: b'DAT' + header(msg_id, idx, total) + chunk, and
\* b'ACK' + (msg_id, idx)
Dat(src, dst, msg_id, idx, total, content) ==
    [kind |-> "DAT", src |-> src, dst |-> dst, msg_id |-> msg_id, idx |-> idx,
     total |-> total, content |-> content]
Ack(src, dst, msg_id, idx) ==
    [kind |-> "ACK", src |-> src, dst |-> dst, msg_id |-> msg_id, idx |-> idx,
     total |-> 0, content |-> <<>>]
\* every DAT datagram that send emits for a payload
Chunks(src, dst, msg_id, data) ==
    {Dat(src, dst, msg_id, i, NumChunks(data), Chunk(data, i)) :
        i \in 0 .. (NumChunks(data) - 1)}

RECURSIVE JoinBackwards(_, _)
\* a join that would take the chunks from the last index down
JoinBackwards(mine, n) ==
    IF n = 0 THEN <<>>
    ELSE (CHOOSE e \in mine : e[2] = n - 1)[3] \o JoinBackwards(mine, n - 1)

RECURSIVE Join(_, _)
\* b"".join(buffer[i] for i in range(n)) for the entries of one pool key
Join(mine, n) ==
    IF n = 0 THEN <<>>
    ELSE Join(mine, n - 1) \o (CHOOSE e \in mine : e[2] = n - 1)[3]

\* _listen_loop of the socket at address me, for one DAT datagram d
listen_dat(me, d) ==
    LET dedup_key == <<d.src, d.msg_id, d.idx>>
        pool_key == <<d.src, d.msg_id>>
        known == \E e \in meta_pool : e[1] = pool_key
        meta == IF known THEN meta_pool ELSE meta_pool \cup {<<pool_key, d.total>>}
        total == (CHOOSE e \in meta : e[1] = pool_key)[2]
        buf == IF \E e \in buffer_pool : e[1] = pool_key /\ e[2] = d.idx
               THEN buffer_pool
               ELSE buffer_pool \cup {<<pool_key, d.idx, d.content>>}
        mine == {e \in buf : e[1] = pool_key}
        pp == Append(processed_packets, dedup_key)
    IN /\ wire' = wire \cup {Ack(me, d.src, d.msg_id, d.idx)}
       /\ peer_addr' = IF peer_addr = None THEN Some(d.src) ELSE peer_addr
       /\ IF \E k \in 1 .. Len(processed_packets) : processed_packets[k] = dedup_key
          THEN UNCHANGED <<processed_packets, old_n, buffer_pool, meta_pool,
                           recv_queue>>
          ELSE IF \/ Cardinality(mine) # total
                  \* an index of range(total) is missing: the join raises
                  \/ \E i \in 0 .. (total - 1) : \A e \in mine : e[2] # i
          THEN /\ processed_packets' = pp
               /\ buffer_pool' = buf
               /\ meta_pool' = meta
               /\ UNCHANGED <<old_n, recv_queue>>
          ELSE /\ recv_queue' = Append(recv_queue, <<Join(mine, total), d.src>>)
               /\ buffer_pool' = buf \ mine
               /\ meta_pool' = {e \in meta : e[1] # pool_key}
               \* the entries older than 60 s are dropped
               /\ processed_packets' = SubSeq(pp, old_n + 1, Len(pp))
               /\ old_n' = 0

\* ReliableUDPSocket.recv, when the queue holds a message
recv ==
    /\ recv_queue # <<>>
    /\ got' = Append(got, Head(recv_queue))
    /\ recv_queue' = Tail(recv_queue)

(***************************************************************************)
(* The receiving socket under arbitrary arrivals of the chunks of three    *)
(* messages: two peers that use the same msg_id, and a one-chunk message.  *)
(***************************************************************************)
MaxDeliveries == 3
RcvMsgs ==
    {[src |-> AddrS, msg_id |-> 1, data |-> <<1, 2, 3>>],
     [src |-> AddrX, msg_id |-> 1, data |-> <<4, 5, 6>>],
     [src |-> AddrS, msg_id |-> 2, data |-> <<>>]}
Inbound == UNION {Chunks(m.src, AddrR, m.msg_id, m.data) : m \in RcvMsgs}

\* a datagram arrives: any chunk, in any order, any number of times
RcvDat ==
    /\ Len(recv_queue) + Len(got) < MaxDeliveries
    /\ \E d \in Inbound : listen_dat(AddrR, d)
    /\ UNCHANGED <<got, sendvars>>

\* time passes: the oldest entry that was younger is now older than 60 s
RcvAge ==
    /\ old_n < Len(processed_packets)
    /\ old_n' = old_n + 1
    /\ UNCHANGED <<sendvars, peer_addr, processed_packets, buffer_pool, meta_pool,
                   recv_queue, got, wire>>

RcvRecv ==
    /\ recv
    /\ UNCHANGED <<sendvars, peer_addr, processed_packets, old_n, buffer_pool,
                   meta_pool, wire>>

RcvNext ==
    \/ RcvDat /\ UNCHANGED <<sgvars, chvars, hvars, pvars, netvars, lkvars, mgr, succ, man, dup, tagvars, lat, rvars, rj, crt>>
    \/ RcvAge /\ UNCHANGED <<sgvars, chvars, hvars, pvars, netvars, lkvars, mgr, succ, man, dup, tagvars, lat, rvars, rj, crt>>
    \/ RcvRecv /\ UNCHANGED <<sgvars, chvars, hvars, pvars, netvars, lkvars, mgr, succ, man, dup, tagvars, lat, rvars, rj, crt>>

SpecRecv == Init /\ [][RcvNext]_vars

\* the messages enqueued so far, and how often m is among them
Enqueued == got \o recv_queue
TimesEnqueued(m) ==
    Cardinality({k \in 1 .. Len(Enqueued) : Enqueued[k] = <<m.data, m.src>>})
\* every chunk of m has arrived (each arrival is acknowledged)
Arrived(m) ==
    \A d \in Chunks(m.src, AddrR, m.msg_id, m.data) :
        Ack(AddrR, d.src, d.msg_id, d.idx) \in wire

\* C18: for every (peer_addr, msg_id), whatever the arrival order, the
\* duplication and the interleaving with other messages and peers, the
\* message is enqueued exactly once, at the moment all its chunks have
\* arrived, as the chunks concatenated in index order with the sender address.
C18_ExactlyOnce ==
    /\ \A m \in RcvMsgs :
        TimesEnqueued(m) = IF Arrived(m) THEN 1 ELSE 0
    /\ \A k \in 1 .. Len(Enqueued) :
        \E m \in RcvMsgs : Enqueued[k] = <<m.data, m.src>>
(***************************************************************************)
(* The sending side: send and _send_chunk_reliable of the calling threads, *)
(* and the ACK branch of _listen_loop, which runs in the listener thread.  *)
(* The threads share expected_ack, expected_ack_addr and ack_event without *)
(* a lock, so every access to them is a step of its own.                   *)
(***************************************************************************)
\* thread t calls send(data, dest); msg_id is the random identifier it draws
send_call(t, data, dest, msg_id) ==
    /\ snd[t].pc = "rest"
    /\ snd[t].result = NoVal
    /\ snd' = [snd EXCEPT ![t] = [pc |-> "set_ack", dest |-> dest, msg_id |-> msg_id,
                                  data |-> data, i |-> 0, attempt |-> 0,
                                  sent |-> <<>>, result |-> NoVal]]
    /\ UNCHANGED <<expected_ack, expected_ack_addr, ack_event, lis, heard, wire>>

\* _send_chunk_reliable: self.expected_ack = (msg_id, chunk_idx)
send_set_ack(t) ==
    /\ snd[t].pc = "set_ack"
    /\ expected_ack' = Some(<<snd[t].msg_id, snd[t].i>>)
    /\ snd' = [snd EXCEPT ![t].pc = "set_addr"]
    /\ UNCHANGED <<expected_ack_addr, ack_event, lis, heard, wire>>

\* self.expected_ack_addr = dest_addr
send_set_addr(t) ==
    /\ snd[t].pc = "set_addr"
    /\ expected_ack_addr' = Some(snd[t].dest)
    /\ snd' = [snd EXCEPT ![t].pc = "clear"]
    /\ UNCHANGED <<expected_ack, ack_event, lis, heard, wire>>

\* self.ack_event.clear(), and the attempts of this chunk begin
send_clear(t) ==
    /\ snd[t].pc = "clear"
    /\ ack_event' = FALSE
    /\ snd' = [snd EXCEPT ![t].pc = "sendto", ![t].attempt = 0,
                          ![t].sent = Append(@, 0)]
    /\ UNCHANGED <<expected_ack, expected_ack_addr, lis, heard, wire>>

\* self.sock.sendto(final_packet, dest_addr)
send_sendto(t) ==
    /\ snd[t].pc = "sendto"
    /\ wire' = wire \cup {Dat(AddrS, snd[t].dest, snd[t].msg_id, snd[t].i,
                              NumChunks(snd[t].data), Chunk(snd[t].data, snd[t].i))}
    /\ snd' = [snd EXCEPT ![t].pc = "wait", ![t].sent[snd[t].i + 1] = @ + 1]
    /\ UNCHANGED <<expected_ack, expected_ack_addr, ack_event, lis, heard>>

\* ack_event.wait(TIMEOUT) returns True: the chunk is done; send goes on to
\* the next chunk or returns True
send_wait_set(t) ==
    /\ snd[t].pc = "wait"
    /\ ack_event
    /\ snd' = IF snd[t].i + 1 = NumChunks(snd[t].data)
              THEN [snd EXCEPT ![t].pc = "rest", ![t].result = "True"]
              ELSE [snd EXCEPT ![t].pc = "set_ack", ![t].i = @ + 1]
    /\ UNCHANGED <<expected_ack, expected_ack_addr, ack_event, lis, heard, wire>>

\* a loop that would go on for two more attempts
LastAttemptLate(attempt) == attempt + 1 = MAX_RETRIES + 2
\* the loop of _send_chunk_reliable is over after this attempt
LastAttempt(attempt) == attempt + 1 = MAX_RETRIES

\* ack_event.wait(TIMEOUT) returns False after 500 ms: the next attempt, or
\* _send_chunk_reliable returns False and so does send
send_wait_timeout(t) ==
    /\ snd[t].pc = "wait"
    /\ ~ack_event
    /\ snd' = IF LastAttempt(snd[t].attempt)
              THEN [snd EXCEPT ![t].pc = "rest", ![t].attempt = @ + 1,
                               ![t].result = "False"]
              ELSE [snd EXCEPT ![t].pc = "sendto", ![t].attempt = @ + 1]
    /\ UNCHANGED <<expected_ack, expected_ack_addr, ack_event, lis, heard, wire>>

\* the ACK a counts for a chunk of the send of thread t: it carries the
\* msg_id of the send and one of its chunk indices and comes from the IP of
\* its destination
Acknowledges(a, t) ==
    /\ snd[t].result = NoVal /\ snd[t].pc # "rest"
    /\ a.msg_id = snd[t].msg_id
    /\ a.idx < NumChunks(snd[t].data)
    /\ a.src[1] = snd[t].dest[1]

\* _listen_loop reads an ACK datagram a and compares it with expected_ack
listen_ack(a) ==
    /\ lis = <<>>
    /\ lis' = IF expected_ack = Some(<<a.msg_id, a.idx>>)
              THEN <<[src |-> a.src, stage |-> "matched"]>>
              ELSE <<>>
    /\ heard' = IF \E t \in Threads : Acknowledges(a, t)
                THEN heard \cup {<<a.msg_id, a.idx>>}
                ELSE heard
    /\ UNCHANGED <<expected_ack, expected_ack_addr, ack_event, snd>>

\* it reads expected_ack_addr and validates the source: the same address,
\* the same IP, or no address recorded
listen_ack_source ==
    /\ lis # <<>>
    /\ lis[1].stage = "matched"
    /\ lis' = IF \/ expected_ack_addr = None
                 \/ lis[1].src = Val(expected_ack_addr)
                 \/ lis[1].src[1] = Val(expected_ack_addr)[1]
              THEN <<[lis[1] EXCEPT !.stage = "valid"]>>
              ELSE <<>>
    /\ UNCHANGED <<expected_ack, expected_ack_addr, ack_event, snd, heard, wire>>

\* self.ack_event.set()
listen_ack_set ==
    /\ lis # <<>>
    /\ lis[1].stage = "valid"
    /\ ack_event' = TRUE
    /\ lis' = <<>>
    /\ UNCHANGED <<expected_ack, expected_ack_addr, snd, heard, wire>>

(***************************************************************************)
(* One thread sends a two-chunk payload to AddrR; any ACK may arrive at    *)
(* any time: from AddrR, from another port of its IP, from another host,   *)
(* for this message or another one.                                        *)
(***************************************************************************)
SndData == <<1, 2, 3>>
SndAcks ==
    {Ack(src, AddrS, id, idx) : src \in {AddrR, AddrR2, AddrX}, id \in {1, 2},
                                idx \in {0, 1}}

SndCall == send_call(1, SndData, AddrR, 1)
SndSetAck == send_set_ack(1)
SndSetAddr == send_set_addr(1)
SndClear == send_clear(1)
SndSendTo == send_sendto(1)
SndWaitSet == send_wait_set(1)
SndWaitTimeout == send_wait_timeout(1)
SndAckArrives == \E a \in SndAcks : listen_ack(a) /\ UNCHANGED wire
SndAckSource == listen_ack_source
SndAckSet == listen_ack_set

SndStep ==
    \/ SndCall \/ SndSetAck \/ SndSetAddr \/ SndClear \/ SndSendTo
    \/ SndWaitSet \/ SndWaitTimeout
    \/ SndAckArrives \/ SndAckSource \/ SndAckSet
SndNext ==
    SndStep /\ UNCHANGED <<sgvars, chvars, hvars, pvars, netvars, lkvars, mgr, succ, man, dup, tagvars, lat, rvars, rj, crt, recvvars>>

\* the sending thread and the listener thread keep running
SndFairness ==
    /\ WF_vars(SndCall /\ UNCHANGED <<sgvars, chvars, hvars, pvars, netvars, lkvars, mgr, succ, man, dup, tagvars, lat, rvars, rj, crt, recvvars>>)
    /\ WF_vars((SndSetAck \/ SndSetAddr \/ SndClear \/ SndSendTo \/ SndWaitSet
                \/ SndWaitTimeout)
               /\ UNCHANGED <<sgvars, chvars, hvars, pvars, netvars, lkvars, mgr, succ, man, dup, tagvars, lat, rvars, rj, crt, recvvars>>)
    /\ WF_vars((SndAckSource \/ SndAckSet)
               /\ UNCHANGED <<sgvars, chvars, hvars, pvars, netvars, lkvars, mgr, succ, man, dup, tagvars, lat, rvars, rj, crt, recvvars>>)

SpecSend == Init /\ [][SndNext]_vars /\ SndFairness

\* every chunk of the send of thread t was acknowledged from the IP of its
\* destination with its own (msg_id, chunk_idx)
AllAcked(t) ==
    \A idx \in 0 .. (NumChunks(snd[t].data) - 1) : <<snd[t].msg_id, idx>> \in heard

\* C15: send returns True only if every chunk of the message was
\* acknowledged by an ACK that carries that chunk's (msg_id, chunk_idx) and
\* comes from the destination (same IP at least); no other ACK completes a
\* chunk.
C15_TrueOnlyIfAcked ==
    snd[1].result = "True" => AllAcked(1)

\* the DAT datagrams of chunk idx of the send of thread t that are on the wire
OnWire(t, idx) ==
    {d \in wire : d.kind = "DAT" /\ d.msg_id = snd[t].msg_id /\ d.idx = idx}

\* what holds of the transmissions of thread 1 at every moment
RetryBudget ==
    LET s == snd[1]
    IN /\ \A k \in 1 .. Len(s.sent) : s.sent[k] <= MAX_RETRIES
       \* a transmission after the first follows a wait that timed out
       /\ (Len(s.sent) > 0 /\ s.result # "False") =>
              s.sent[Len(s.sent)] \in {s.attempt, s.attempt + 1}
       \* send fails exactly when the wait after the last transmission of a
       \* chunk times out, and nothing of a later chunk was transmitted
       /\ s.result = "False" =>
              /\ s.attempt = MAX_RETRIES
              /\ Len(s.sent) = s.i + 1
              /\ s.sent[s.i + 1] = MAX_RETRIES
              /\ \A idx \in (s.i + 1) .. (NumChunks(s.data) - 1) : OnWire(1, idx) = {}

\* C17: a chunk that receives no matching ACK is retransmitted, each time
\* after a wait that timed out, up to the retry limit (MAX_RETRIES = 10
\* transmissions in all); then send returns False without transmitting any
\* later chunk; every call of send terminates.
C17_BoundedRetries ==
    /\ []RetryBudget
    /\ (snd[1].pc # "rest") ~> (snd[1].result # NoVal)

\* witness of C17: send has failed on its second chunk after the last retry
C17_Witness ==
    /\ snd[1].result = "False"
    /\ snd[1].i = 1
    /\ snd[1].sent = <<1, MAX_RETRIES>>

(***************************************************************************)
(* Two threads send on the same socket at the same time, each a one-chunk  *)
(* payload to its own peer; each peer acknowledges what it was sent.       *)
(***************************************************************************)
\* the destination, msg_id and payload of the send of thread t
DestOf(t) == IF t = 1 THEN AddrR ELSE AddrX
DataOf(t) == IF t = 1 THEN <<1, 2>> ELSE <<3>>

\* the ACK of the peer of thread t for the chunk that thread has transmitted
PeerAcks ==
    {Ack(d.dst, AddrS, d.msg_id, d.idx) : d \in {e \in wire : e.kind = "DAT"}}

ConcCall == \E t \in Threads : send_call(t, DataOf(t), DestOf(t), t)
ConcSend ==
    \E t \in Threads :
        \/ send_set_ack(t) \/ send_set_addr(t) \/ send_clear(t) \/ send_sendto(t)
ConcWait == \E t \in Threads : send_wait_set(t) \/ send_wait_timeout(t)
ConcAckArrives == \E a \in PeerAcks : listen_ack(a) /\ UNCHANGED wire
ConcListen == listen_ack_source \/ listen_ack_set

ConcNext ==
    \/ ConcCall /\ UNCHANGED <<sgvars, chvars, hvars, pvars, netvars, lkvars, mgr, succ, man, dup, tagvars, lat, rvars, rj, crt, recvvars>>
    \/ ConcSend /\ UNCHANGED <<sgvars, chvars, hvars, pvars, netvars, lkvars, mgr, succ, man, dup, tagvars, lat, rvars, rj, crt, recvvars>>
    \/ ConcWait /\ UNCHANGED <<sgvars, chvars, hvars, pvars, netvars, lkvars, mgr, succ, man, dup, tagvars, lat, rvars, rj, crt, recvvars>>
    \/ ConcAckArrives /\ UNCHANGED <<sgvars, chvars, hvars, pvars, netvars, lkvars, mgr, succ, man, dup, tagvars, lat, rvars, rj, crt, recvvars>>
    \/ ConcListen /\ UNCHANGED <<sgvars, chvars, hvars, pvars, netvars, lkvars, mgr, succ, man, dup, tagvars, lat, rvars, rj, crt, recvvars>>

SpecConc == Init /\ [][ConcNext]_vars

\* C16: when two threads run send at the same time on one socket, each send
\* returns True only if all of its own chunks were acknowledged by its own
\* destination: an ACK for the chunk of one thread does not complete the
\* chunk of the other.
C16_OwnAcksOnly ==
    \A t \in Threads : snd[t].result = "True" => AllAcked(t)

(***************************************************************************)
(* A transfer: one thread of the socket at AddrS sends SndData to the      *)
(* socket at AddrR over a network that may lose, duplicate and reorder     *)
(* datagrams.  The wire holds every datagram that was transmitted; one     *)
(* that never arrives is lost.                                             *)
(***************************************************************************)
XferOthers == <<sgvars, chvars, hvars, pvars, netvars, lkvars, mgr, succ, man, dup, tagvars, lat, rvars, rj, crt>>

XferCall ==
    /\ send_call(1, SndData, AddrR, 1)
    /\ UNCHANGED <<recvvars, XferOthers>>
XferSend ==
    /\ \/ send_set_ack(1) \/ send_set_addr(1) \/ send_clear(1) \/ send_sendto(1)
       \/ send_wait_set(1) \/ send_wait_timeout(1)
    /\ UNCHANGED <<recvvars, XferOthers>>
\* a DAT datagram reaches the listener of the receiving socket
XferDatArrives ==
    /\ \E d \in wire : d.kind = "DAT" /\ d.dst = AddrR /\ listen_dat(AddrR, d)
    /\ UNCHANGED <<got, sendvars, XferOthers>>
\* an ACK datagram reaches the listener of the sending socket
XferAckArrives ==
    /\ \E a \in wire : a.kind = "ACK" /\ a.dst = AddrS /\ listen_ack(a)
    /\ UNCHANGED <<wire, recvvars, XferOthers>>
XferListen ==
    /\ listen_ack_source \/ listen_ack_set
    /\ UNCHANGED <<recvvars, XferOthers>>
XferAge == RcvAge /\ UNCHANGED XferOthers
XferRecv == RcvRecv /\ UNCHANGED XferOthers

XferNext ==
    \/ XferCall \/ XferSend \/ XferDatArrives \/ XferAckArrives \/ XferListen
    \/ XferAge \/ XferRecv

\* the threads keep running: the caller of send, the listener of the sending
\* socket, the caller of recv; the network owes nothing
XferFairness ==
    /\ WF_vars(XferCall)
    /\ WF_vars(XferSend)
    /\ WF_vars(XferListen)
    /\ WF_vars(XferRecv)

SpecXfer == Init /\ [][XferNext]_vars /\ XferFairness

\* a transmission of chunk idx has reached the receiver
Reached(idx) == Ack(AddrR, AddrS, 1, idx) \in wire
\* an ACK of chunk idx has reached the sender and set the event while the
\* sender was still waiting for that chunk
AckedInTime(idx) ==
    /\ <<1, idx>> \in heard
    /\ ack_event
    /\ snd[1].pc = "wait"
    /\ snd[1].i = idx

\* C19: if for every chunk of the payload at least one transmission reaches
\* the receiver and at least one of the ACKs reaches the sender within the
\* retry budget, then send returns True and recv on the receiver yields
\* (payload, sender address) exactly once.
C19_DeliveryUnderLoss ==
    (\A idx \in 0 .. (NumChunks(SndData) - 1) :
        <>Reached(idx) /\ <>AckedInTime(idx))
    => <>[](/\ snd[1].result = "True"
            /\ got = <<<<SndData, AddrS>>>>
            /\ recv_queue = <<>>)

\* witness of C19: the second chunk went through on a retransmission
\* and the payload was received
C19_Witness ==
    /\ snd[1].result = "True"
    /\ Len(snd[1].sent) = NumChunks(SndData)
    /\ snd[1].sent[Len(snd[1].sent)] > 1
    /\ AllAcked(1)
    /\ got = <<<<SndData, AddrS>>>>

(***************************************************************************)
(* CRT image sharing.  An image is a sequence of pixel bytes.  The         *)
(* splitter and the Arnold scrambler are not part of the sources: Split    *)
(* and Scramble follow the specification (the scramble is a permutation    *)
(* of the pixels, here the reversal).                                      *)
(***************************************************************************)
MODULI == <<257, 263, 269, 271, 277>>
LARGE_PRIME_Q == 257
ImgLen == 2
PixelVals == {0, 1, 128, 255}
Images == [1 .. ImgLen -> PixelVals]
\* the (n, t) of a manifest
Schemes == {<<3, 2>>, <<5, 3>>}

Scramble(img) == [k \in 1 .. Len(img) |-> img[Len(img) + 1 - k]]
Unscramble(img) == [k \in 1 .. Len(img) |-> img[Len(img) + 1 - k]]

\* Split: share i holds the residues of the scrambled pixels modulo m_i
Split(img, n) ==
    [i \in 1 .. n |->
        [modulus |-> MODULI[i],
         data |-> [k \in 1 .. Len(img) |-> Scramble(img)[k] % MODULI[i]]]]

RECURSIVE Product(_)
Product(ms) == IF ms = <<>> THEN 1 ELSE Head(ms) * Product(Tail(ms))

RECURSIVE MulMod(_, _, _)
\* (a * b) mod m, as the arbitrary-precision product gives it
MulMod(a, b, m) ==
    IF b = 0 THEN 0
    ELSE (2 * MulMod(a, b \div 2, m) + (b % 2) * (a % m)) % m

\* ImageCRTReconstructor._modinv
modinv(a, m) == CHOOSE x \in 0 .. (m - 1) : ((a % m) * x) % m = 1

\* ImageCRTReconstructor.reconstruct_from_memory on a list of shares: the
\* image it returns, or a raise
ReconstructFromMemory(shares_list) ==
    LET t == T_THRESHOLD
    IN IF Len(shares_list) < t
       THEN [ok |-> FALSE, img |-> <<>>, error |-> "Insufficient shares"]
       ELSE LET selected_shares == SubSeq(shares_list, 1, t)
                active_moduli == [i \in 1 .. t |-> selected_shares[i].modulus]
                M == Product(active_moduli)
                weights == [i \in 1 .. t |->
                               (M \div active_moduli[i])
                               * modinv(M \div active_moduli[i], active_moduli[i])]
                Y(k) == SumSeq([i \in 1 .. t |->
                                   MulMod(weights[i], selected_shares[i].data[k], M)]) % M
                n_pix == Len(selected_shares[1].data)
            IN IF \E i \in 1 .. t : \E k \in 1 .. n_pix :
                      selected_shares[i].data[k] >= selected_shares[i].modulus
               THEN [ok |-> FALSE, img |-> <<>>, error |-> "Security Alert"]
               ELSE [ok |-> TRUE,
                     img |-> Unscramble([k \in 1 .. n_pix |->
                                            (Y(k) % LARGE_PRIME_Q) % 256]),
                     error |-> NoVal]

\* the shares with the indices of T (counted from 0), in index order
Chosen(shares, T) ==
    SeqOf([i \in 1 .. Len(shares) |-> shares[i]], {i + 1 : i \in T}, Len(shares))

\* an image is split for a scheme (n, t) and reconstructed from t of the shares
CrtReconstruct ==
    \E img \in Images, nt \in Schemes :
        \E T \in {S \in SUBSET (0 .. (nt[1] - 1)) : Cardinality(S) = nt[2]} :
            crt' = <<[image |-> img, n |-> nt[1], t |-> nt[2], chosen |-> T,
                      r |-> ReconstructFromMemory(Chosen(Split(img, nt[1]), T))]>>

CrtNext ==
    CrtReconstruct
    /\ UNCHANGED <<sgvars, chvars, hvars, pvars, netvars, lkvars, mgr, succ, man, dup, tagvars, lat, rvars, rj, uvars>>
SpecCrt == Init /\ [][CrtNext]_vars

\* C20: for every image and every valid (n, t), reconstruction from any t of
\* the n shares of the image returns the image exactly: any two shares for
\* n = 3, t = 2, and any three, such as {0, 2, 4} and {1, 2, 3}, for
\* n = 5, t = 3.
C20_AnyTSharesReconstruct ==
    crt # <<>> =>
        /\ crt[1].r.ok
        /\ crt[1].r.img = crt[1].image
(***************************************************************************)
(* Fewer than t shares.  Two different images are split for the same       *)
(* scheme and the same, too small, set of shares of each is handed to a    *)
(* reconstruction entry point.                                             *)
(***************************************************************************)
\* the (n, t) a Dealer may choose over the five default moduli
LeakSchemes == {<<3, 2>>, <<5, 3>>, <<5, 4>>}
EntryPoints == {"reconstruct_from_memory", "reconstruct"}

\* ImageCRTReconstructor.reconstruct on a list of shares (it reads the
\* modulus of a share under the key 'mod'): no threshold, no range check, no
\* reduction modulo LARGE_PRIME_Q and no inverse scramble
Reconstruct(valid_shares) ==
    IF valid_shares = <<>>
    THEN [ok |-> FALSE, img |-> <<>>, error |-> "None"]
    ELSE LET k_n == Len(valid_shares)
             moduli == [i \in 1 .. k_n |-> valid_shares[i].modulus]
             M == Product(moduli)
             term(i, k) ==
                 MulMod((M \div moduli[i]) * modinv(M \div moduli[i], moduli[i]),
                        valid_shares[i].data[k], M)
             acc(k) == SumSeq([i \in 1 .. k_n |-> term(i, k)])
         IN [ok |-> TRUE,
             img |-> [k \in 1 .. Len(valid_shares[1].data) |-> (acc(k) % M) % 256],
             error |-> NoVal]

EntryPoint(entry, shares_list) ==
    IF entry = "reconstruct" THEN Reconstruct(shares_list)
    ELSE ReconstructFromMemory(shares_list)

LeakReconstruct ==
    \E img \in Images, other \in Images, nt \in LeakSchemes, entry \in EntryPoints :
        \E T \in {S \in SUBSET (0 .. (nt[1] - 1)) :
                     Cardinality(S) >= 1 /\ Cardinality(S) < nt[2]} :
            /\ crt = <<>>
            /\ img # other
            /\ crt' = <<[image |-> img, other |-> other, n |-> nt[1], t |-> nt[2],
                         chosen |-> T, entry |-> entry,
                         r |-> EntryPoint(entry, Chosen(Split(img, nt[1]), T)),
                         r_other |-> EntryPoint(entry, Chosen(Split(other, nt[1]), T))]>>

LeakNext ==
    LeakReconstruct
    /\ UNCHANGED <<sgvars, chvars, hvars, pvars, netvars, lkvars, mgr, succ, man, dup, tagvars, lat, rvars, rj, uvars>>
SpecLeak == Init /\ [][LeakNext]_vars

\* C21: from fewer than t shares every entry point either raises or returns
\* an image that does not depend on the image that was split: the same set
\* of shares of two different images gives the same outcome.
C21_FewSharesRevealNothing ==
    crt # <<>> =>
        \/ ~crt[1].r.ok /\ ~crt[1].r_other.ok
        \/ crt[1].r = crt[1].r_other
(***************************************************************************)
(* LatticeSigner.sign and LatticeSigner.verify on the integers (signer.py  *)
(* 292-409), in ring dimension 1.                                          *)
(***************************************************************************)
\* every specification of this part changes lat only
NotLat == <<sgvars, chvars, hvars, pvars, netvars, lkvars, mgr, succ, man, dup, tagvars, rvars, rj, uvars, crt>>

\* KeyGenerator.generate_party_key: t = center(A*s1) + s2 mod q
KeyT(sk) == (center_mod(polymul_rq(ACoef, S1(sk) % Q), Q) + S2(sk)) % Q

\* hashlib.sha256(message_bytes + w_json).digest(), as an injective tag
Sha256W(message, w) == <<"sha256", message, w>>

\* _hash_to_poly: the one coefficient, +1 or -1, seeded by the hash
hash_to_poly(c_hash) == IF (c_hash[2] + c_hash[3]) % 2 = 0 THEN 1 ELSE 0 - 1

\* one pass of the loop of sign with the sampled y: the signature, or None
\* when the self check rejects and the loop samples again
SignAttempt(sk, message, y) ==
    LET Ay == polymul_rq(ACoef, y % Q)
        w == high_bits(Ay, ALPHA, Q)
        c_hash == Sha256W(message, w)
        c_poly == hash_to_poly(c_hash)
        z == ((y % Q) + polymul_rq(c_poly % Q, S1(sk) % Q)) % Q
    IN IF Abs(center_mod(z, Q)) >= GAMMA1 - BETA THEN None
       ELSE Some([z |-> z, w |-> w, c_hash |-> c_hash])

\* LatticeSigner.verify
LatticeVerify(pk_t, message, signature) ==
    LET recomputed_hash == Sha256W(message, signature.w)
        c_poly == hash_to_poly(recomputed_hash)
        Az == polymul_rq(ACoef, signature.z % Q)
        ct == polymul_rq(c_poly % Q, pk_t)
        V == (Az - ct) % Q
        D == (V - signature.w * ALPHA) % Q
        Diff == IF D <= Q \div 2 THEN D ELSE D - Q
    IN IF recomputed_hash # signature.c_hash THEN FALSE
       ELSE Abs(Diff) < BETA + (ALPHA \div 2) + 500

\* the y of sign: both ends of randint(-bound, bound) and two small ones
SignYVals == {0 - (GAMMA1 \div 8), 0 - 3, YSmall, (GAMMA1 \div 8) - 1}
SignMsgs == {FileHash, FileHash + 1}
\* what is changed between sign and verify: nothing, the message, or one
\* integer of the signature (z by a multiple of q, which polymul_rq maps to
\* the same residue; w by one; c_hash to the hash of another message)
Changes == {"none", "message", "z", "w", "c_hash"}

Changed(sig, kind) ==
    CASE kind = "z" -> [sig EXCEPT !.z = @ + Q]
      [] kind = "w" -> [sig EXCEPT !.w = @ + 1]
      [] kind = "c_hash" -> [sig EXCEPT !.c_hash = Sha256W(sig.c_hash[2] + 1, sig.w)]
      [] OTHER -> sig

SignVerify ==
    \E sk \in SKs, message \in SignMsgs, y \in SignYVals, kind \in Changes :
        LET s == SignAttempt(sk, message, y)
            presented == Changed(Val(s), kind)
            m_v == IF kind = "message" THEN message + 1 ELSE message
        IN /\ lat = <<>>
           /\ s # None
           /\ lat' = <<[op |-> "verify", sk |-> sk, message |-> message, y |-> y,
                        change |-> kind, sig |-> Val(s), presented |-> presented,
                        result |-> LatticeVerify(KeyT(sk), m_v, presented)]>>

SigNext == SignVerify /\ UNCHANGED NotLat
SpecSig == Init /\ [][SigNext]_vars

\* C22: verify accepts what sign returned for the message under the matching
\* public key, and refuses it for another message and with any integer of
\* the signature (z, w or c_hash) changed.
C22_SignVerifyRoundTrip ==
    lat # <<>> => (lat[1].result <=> lat[1].change = "none")

\* the two halves of C22 taken apart
C22_HonestAccepted ==
    lat # <<>> /\ lat[1].change = "none" => lat[1].result
C22_HashBound ==
    lat # <<>> /\ lat[1].change \in {"message", "w", "c_hash"} => ~lat[1].result
(***************************************************************************)
(* The key encapsulation on the integers (encryptor.py 75-144), in ring    *)
(* dimension 1: the session key is the one bit the coefficient carries.    *)
(***************************************************************************)
\* sample_poly_centered(N, eta): a coefficient in [-eta, eta]
Noise == (0 - ETA) .. ETA

\* LatticeEncryptor._lwe_encrypt_key with its samples r, e1, e2 made explicit
LweEncryptKey(pk_t, key_bit, r, e1, e2) ==
    LET m_poly == IF key_bit = 1 THEN Q \div 2 ELSE 0
        u == poly_add(polymul_rq(ACoef, r % Q), e1, Q)
        v0 == poly_add(0, polymul_rq(pk_t, r % Q), Q)
    IN [u |-> u, v |-> poly_add(poly_add(v0, e2, Q), m_poly, Q)]

\* LatticeEncryptor._lwe_decrypt_key: the threshold decision always yields
\* a bit string, which int(...).to_bytes(32) turns into 32 bytes
LweDecryptKey(sk, cipher_struct) ==
    LET su == poly_add(0, polymul_rq(S1(sk) % Q, cipher_struct.u), Q)
        m_noisy == poly_sub(cipher_struct.v, su, Q)
    IN IF (Q \div 4) < m_noisy /\ m_noisy < (3 * Q) \div 4 THEN Some(1) ELSE Some(0)

\* LatticeEncryptor.encrypt_data
EncryptData(pk_t, session_key, raw, r, e1, e2) ==
    [cipher_key |-> LweEncryptKey(pk_t, session_key, r, e1, e2),
     cipher_data |-> Xor(raw, Keystream(session_key))]

\* LatticeEncryptor.decrypt_data: None only for a session key that is falsy
\* (empty), the bytes under the decoded key otherwise
DecryptData(sk, package) ==
    LET session_key == LweDecryptKey(sk, package.cipher_key)
    IN IF session_key = None THEN None
       ELSE Some(Xor(package.cipher_data, Keystream(Val(session_key))))

KemEncryptDecrypt ==
    \E sk \in SKs, other \in SKs, key \in {0, 1}, r \in Noise, e1 \in Noise, e2 \in Noise :
        LET package == EncryptData(KeyT(sk), key, RawShare, r, e1, e2)
        IN /\ lat = <<>>
           /\ lat' = <<[op |-> "decrypt", to |-> sk, with |-> other, key |-> key,
                     noise |-> <<r, e1, e2>>, payload |-> RawShare,
                     decaps |-> LweDecryptKey(other, package.cipher_key),
                     result |-> DecryptData(other, package)]>>

KemNext == KemEncryptDecrypt /\ UNCHANGED NotLat
SpecKem == Init /\ [][KemNext]_vars

\* C23: with the secret key of the recipient, decapsulation returns the
\* encapsulated key and decrypt_data the payload, for every noise r, e1, e2
\* in [-eta, eta]; with any other secret key decrypt_data returns none.
C23_KemRoundTrip ==
    lat # <<>> =>
        IF lat[1].with = lat[1].to
        THEN /\ lat[1].decaps = Some(lat[1].key)
             /\ lat[1].result = Some(lat[1].payload)
        ELSE lat[1].result = None

\* the half of C23 about the matching key
C23_MatchingKey ==
    lat # <<>> /\ lat[1].with = lat[1].to =>
        /\ lat[1].decaps = Some(lat[1].key)
        /\ lat[1].result = Some(lat[1].payload)
(***************************************************************************)
(* KeyGenerator.generate_party_key (keygen.py 39-80) for one row of A      *)
(* with two columns (k = 1, l = 2), in ring dimension 1.                   *)
(***************************************************************************)
Rhos == {0, 1, 2}

\* expand_a(rho): the row of A the seed expands to, coefficients in [0, q)
expand_a(rho) == <<(ACoef + 1753 * rho) % Q, ((Q \div 2) + 7 * rho) % Q>>

\* a key generator that would not reduce t
generate_party_key_unreduced(rho, s1, s2) ==
    LET A == expand_a(rho)
        row_res == center_mod(polymul_rq(A[1], s1[1] % Q), Q)
                   + center_mod(polymul_rq(A[2], s1[2] % Q), Q)
    IN [pk |-> [rho |-> rho, public_seed |-> rho, t |-> row_res + s2],
        sk |-> [rho |-> rho, public_seed |-> rho, s1 |-> s1, s |-> s1, s2 |-> s2]]

\* generate_party_key with its samples s1, s2 made explicit
generate_party_key(rho, s1, s2) ==
    LET A == expand_a(rho)
        row_res == center_mod(polymul_rq(A[1], s1[1] % Q), Q)
                   + center_mod(polymul_rq(A[2], s1[2] % Q), Q)
    IN [pk |-> [rho |-> rho, public_seed |-> rho, t |-> (row_res + s2) % Q],
        sk |-> [rho |-> rho, public_seed |-> rho, s1 |-> s1, s |-> s1, s2 |-> s2]]

\* np.random.randint(-eta, eta + 1)
EtaRange == (0 - ETA) .. ETA

KeyGen ==
    \E rho \in Rhos, a \in EtaRange, b \in EtaRange, e \in EtaRange :
        /\ lat = <<>>
        /\ lat' = <<[op |-> "keygen", rho |-> rho,
                     keys |-> generate_party_key(rho, <<a, b>>, e)]>>

KeyGenNext == KeyGen /\ UNCHANGED NotLat
SpecKeyGen == Init /\ [][KeyGenNext]_vars

\* C24: the pair generate_party_key returns for a seed rho satisfies
\* t = A(rho)*s1 + s2 mod q with t in [0, q), s1 and s2 in [-eta, eta], and
\* pk and sk carry the same rho.
C24_KeyRelation ==
    lat # <<>> =>
        LET pk == lat[1].keys.pk
            sk == lat[1].keys.sk
            A == expand_a(pk.rho)
        IN /\ pk.t = (A[1] * sk.s1[1] + A[2] * sk.s1[2] + sk.s2) % Q
           /\ 0 <= pk.t /\ pk.t < Q
           /\ \A j \in 1 .. 2 : Abs(sk.s1[j]) <= ETA
           /\ Abs(sk.s2) <= ETA
           /\ pk.rho = sk.rho /\ pk.rho = lat[1].rho

\* a key with s1 and s2 at the lower end of their range, whose A*s1 + s2 is
\* negative before the reduction
C24_Witness ==
    /\ lat # <<>>
    /\ lat[1].op = "keygen"
    /\ lat[1].keys.sk.s1 = <<0 - ETA, 0 - ETA>>
    /\ lat[1].keys.sk.s2 = 0 - ETA
    /\ lat[1].keys.pk.t > Q \div 2
(***************************************************************************)
(* One threshold signature of t honest parties, as                         *)
(* test_memory_signing_flow runs it: phase1_commitment of each party,      *)
(* aggregate_w_shares, phase2_response of each party on the same           *)
(* (message, timestamp, W), aggregate_responses, verify_final_signature.   *)
(***************************************************************************)
\* the y of phase1_commitment, randint(-bound, bound + 1) with bound
\* GAMMA1 >> 3: both ends, the largest values that pass the low-bits check,
\* and two small ones
ThrYVals == {0 - YEdge, 0 - (YLowEdge - 3), 0 - YSmall, YSmall, YLowEdge - 3, YEdge}
\* the parties: t of the key holders
ThrParties ==
    {<<"skH", "skA", "skB">>, <<"skA", "skB", "skC">>, <<"skH", "skC", "skX">>}

ThresholdSign ==
    \E p \in ThrParties, ys \in [1 .. T_THRESHOLD -> ThrYVals], ts \in TsVals :
        LET commitments == [i \in 1 .. T_THRESHOLD |-> Commitment(ys[i])]
            W == aggregate_w_shares(commitments)
            c_host == DeriveChallenge(FileHash, high_bits(W, ALPHA, Q), ts)
            zs == [i \in 1 .. T_THRESHOLD |->
                      phase2_response(p[i], Some(ys[i]),
                          [kind |-> "tuple", message |-> FileHash, ts |-> ts],
                          Some(W)).z]
            accepted == \A i \in 1 .. T_THRESHOLD : zs[i] # None
            Z == IF accepted
                 THEN aggregate_responses([i \in 1 .. T_THRESHOLD |-> Val(zs[i])])
                 ELSE 0
        IN /\ lat = <<>>
           /\ lat' = <<[op |-> "threshold", parties |-> p, ys |-> ys, ts |-> ts,
                        W |-> W, c |-> c_host, zs |-> zs, accepted |-> accepted,
                        Z |-> Z,
                        valid |-> accepted
                                  /\ verify_final_signature(Z, c_host, FileHash, ts, W)]>>

ThrNext == ThresholdSign /\ UNCHANGED NotLat
SpecThreshold == Init /\ [][ThrNext]_vars

\* C25: when every one of the t honest parties returned a z for the same
\* (message, timestamp, W), verify_final_signature accepts the sum Z with
\* W_sum = W: Z is the sum of the responses y_i + c*s1_i, its centred norm
\* is below gamma1 - beta and the challenge recomputed from HighBits(W) is
\* the one the parties used.
C25_ThresholdCorrectness ==
    lat # <<>> /\ lat[1].accepted =>
        LET e == lat[1]
        IN /\ e.valid
           /\ Abs(center_mod(e.Z, Q)) < GAMMA1 - BETA
           /\ center_mod(e.Z, Q) =
                  SumSeq([i \in 1 .. T_THRESHOLD |-> e.ys[i] + e.c * S1(e.parties[i])])
           /\ DeriveChallenge(FileHash, high_bits(e.W, ALPHA, Q), e.ts) = e.c

\* a signature of three parties whose y are all the largest that pass, so
\* that Z is three times as far out as one share, accepted
C25_Witness ==
    /\ lat # <<>>
    /\ lat[1].op = "threshold"
    /\ lat[1].accepted
    /\ \A i \in 1 .. T_THRESHOLD : lat[1].ys[i] = YLowEdge - 3
    /\ Abs(center_mod(lat[1].Z, Q)) > GAMMA1 \div 4
    /\ lat[1].valid
(***************************************************************************)
(* A silent peer.  The peer of slot SilentSlot takes part in the HELLO /   *)
(* HANDSHAKE exchange and is never heard again after start_recovery; the   *)
(* other peers answer whatever they are asked.  The Host has no thread     *)
(* besides the message loops and the operator's calls.                     *)
(***************************************************************************)
SilentSlot == 1

SilInvite ==
    /\ create_invitation
    /\ UNCHANGED <<sgvars, chvars, pvars, netvars, auxvars>>
\* the operator starts the recovery once
SilStart ==
    /\ state = IDLE
    /\ start_recovery
    /\ UNCHANGED <<sgvars, chvars, pvars, netvars, auxvars>>
SilHello(idx) ==
    /\ state = IDLE
    /\ MgrRecvClear(idx)
    /\ UNCHANGED <<sgvars, chvars, pvars, netvars, auxvars>>
SilAnswer(idx) ==
    /\ idx # SilentSlot
    /\ MgrRecvSecure(idx)
    /\ UNCHANGED <<sgvars, chvars, pvars, netvars, auxvars>>

SilNext ==
    \/ SilInvite
    \/ SilStart
    \/ \E idx \in Slots : SilHello(idx)
    \/ \E idx \in Slots : SilAnswer(idx)

\* the operator and every message loop keep running, and every peer but the
\* silent one keeps sending
SilFairness ==
    /\ WF_vars(SilInvite)
    /\ WF_vars(SilStart)
    /\ \A idx \in Slots : WF_vars(SilHello(idx))
    /\ \A idx \in Slots : WF_vars(SilAnswer(idx))

SpecSilent == Init /\ [][SilNext]_vars /\ SilFairness

\* the session waits for a verified peer
Waiting ==
    /\ state \in {WAITING_COMMITMENTS, WAITING_RESPONSES, RECONSTRUCTING}
    /\ SilentSlot <= Len(peers_data)
    /\ peers_data[SilentSlot].verified

\* the session ended the way an expired deadline ends it
Expired ==
    /\ state = FINISHED
    /\ \A i \in 1 .. Len(managers) : managers[i].session_key = None
    /\ my_y = None

\* C26: a Host session that waits for a verified peer which never answers
\* does not wait forever: it reaches FINISHED with every secure channel torn
\* down and the commitment secret y dropped.
C26_SilentPeerExpires == Waiting ~> Expired
(***************************************************************************)
(* A declined challenge.                                                   *)
(***************************************************************************)
\* the step handled a BROAD_CHALLENGE that the approver of participant i
\* declined
Declines(i) ==
    /\ parts[i].signed # "declined"
    /\ parts'[i].signed = "declined"

\* C27: a Participant whose approver declines a BROAD_CHALLENGE computes no
\* response (its y is not consumed for a z) and sends an explicit
\* RES_RESPONSE marked declined, on which the Host gives the peer up.
C27_DeclineIsExplicit ==
    [][\A i \in Slots : Declines(i) =>
            /\ p_out' # <<>>
            /\ p_out'[1].type = "RES_RESPONSE"
            /\ p_out'[1].val = "declined"]_vars
(***************************************************************************)
(* A SECURE packet whose tag does not verify.                              *)
(***************************************************************************)
\* decrypt_traffic on the channel of slot idx: the plaintext, or None when
\* the channel has no key or the tag does not verify under it
decrypt_traffic(idx, pkt) ==
    IF managers[idx].session_key = None \/ pkt.key # managers[idx].session_key
    THEN None
    ELSE Some(pkt.type)

\* the packet reaches decrypt_traffic and fails there
TagFails(idx, pkt) ==
    /\ pkt.outer = "SECURE"
    /\ managers[idx].session_key # None
    /\ decrypt_traffic(idx, pkt) = None

\* _message_loop hands the packet to the session
Dispatches(idx, pkt) ==
    \/ pkt.outer \in {"HELLO", "HANDSHAKE"}
    \/ pkt.outer = "SECURE" /\ decrypt_traffic(idx, pkt) # None

\* a packet sealed under a key that is not the key of the channel
Forged == Packet("SECURE", Some(GarbledKey), "RES_SHARE", NoVal, RawShare, 0, None)

\* the last step sent something to the peer of slot idx
SentTo(out, mgrs, idx) ==
    \E k \in 1 .. Len(out) :
        \/ out[k].dest = idx
        \/ out[k].dest = 0 /\ idx \in Established(mgrs)

TagInvite ==
    /\ Len(managers) < RoundSlots
    /\ create_invitation
    /\ r_disp' = <<>>
    /\ UNCHANGED <<r_bad, sgvars, chvars, pvars, netvars, lkvars, mgr, succ, man, dup, rvars, rj, uvars, crt, lat>>

TagStart ==
    /\ start_recovery
    /\ r_disp' = <<>>
    /\ UNCHANGED <<r_bad, sgvars, chvars, pvars, netvars, lkvars, mgr, succ, man, dup, rvars, rj, uvars, crt, lat>>

TagDeliver(idx) ==
    /\ idx <= Len(managers)
    /\ \E pkt \in RoundPackets(idx) \cup {Forged} :
        /\ mgr_message_loop(idx, pkt)
        /\ r_bad' = IF TagFails(idx, pkt) THEN r_bad \cup {idx} ELSE r_bad
        /\ r_disp' = IF Dispatches(idx, pkt) THEN <<idx>> ELSE <<>>
    /\ UNCHANGED <<sgvars, chvars, pvars, netvars, lkvars, mgr, succ, man, dup, rvars, rj, uvars, crt, lat>>

TagNext ==
    \/ TagInvite
    \/ TagStart
    \/ \E idx \in 1 .. RoundSlots : TagDeliver(idx)

SpecTag == Init /\ [][TagNext]_vars

\* C28: a SECURE message whose tag does not verify is not dispatched, and
\* from then on the peer is dead for the Host: no later message of that peer
\* is dispatched to the session and nothing more is sent to it.
C28_BadTagIsFatal ==
    \A idx \in r_bad :
        /\ r_disp # <<idx>>
        /\ ~SentTo(h_out, managers, idx)

\* the first part of C28 alone: the message with the bad tag is not
\* dispatched
C28_BadTagNotDispatched ==
    [][\A idx \in 1 .. RoundSlots :
          (idx \in r_bad' /\ idx \notin r_bad) =>
              /\ r_disp' = <<>>
              /\ h_out' = <<>>
              /\ UNCHANGED <<state, managers, peers_data, my_y, my_z>>]_vars
(***************************************************************************)
(* The manifest: written by AssetLocker.lock_and_distribute, read by the   *)
(* Host (_find_in_manifest) and by the unlock path (unlock_asset.main).    *)
(* A registry entry is a record; reading a key it does not have raises.    *)
(***************************************************************************)
NotMan == <<sgvars, chvars, hvars, pvars, netvars, lkvars, mgr, succ, dup, tagvars, lat, rvars, rj, uvars, crt>>

\* the key pairs of the recipients, in the order of the .pk files
Owners == <<"skA", "skB", "skC", "skH", "skX">>

\* the dict lock_and_distribute appends to the registry for share i (from 0)
ManifestEntry(i) ==
    [share_index |-> i,
     modulus |-> MODULI[i + 1],
     carrier_file |-> <<Owners[i + 1], i + 1>>,
     share_fingerprint |-> Sha256(RawShare + i),
     owner_alias |-> Owners[i + 1]]

\* the manifest of lock_and_distribute for (n, t)
lock_and_distribute(n, t) ==
    [version |-> "QSP-3.0-Secure", threshold |-> t, total_shares |-> n,
     registry |-> [k \in 1 .. n |-> ManifestEntry(k - 1)]]

\* RecoveryHostSession._find_in_manifest on the registry: the entry whose
\* public_key_t equals the t of the key received, or None
find_in_manifest(registry, pk_t) ==
    LET hits == {k \in 1 .. Len(registry) :
                    /\ "public_key_t" \in DOMAIN registry[k]
                    /\ registry[k]["public_key_t"] = pk_t}
    IN IF hits = {} THEN None
       ELSE Some(registry[CHOOSE k \in hits : \A j \in hits : k <= j])

\* the two reads unlock_asset.main makes on an entry before it opens the
\* share file: the path it gets, or the KeyError
unlock_entry(entry) ==
    IF "owner_alias" \notin DOMAIN entry \/ "file_path" \notin DOMAIN entry
    THEN "KeyError"
    ELSE "read"

ManLock ==
    \E nt \in LeakSchemes :
        /\ man = <<>>
        /\ man' = <<[n |-> nt[1], t |-> nt[2],
                     manifest |-> lock_and_distribute(nt[1], nt[2]),
                     hello |-> [k \in 1 .. Len(Owners) |-> "none"],
                     unlock |-> [k \in 1 .. nt[1] |-> "none"]]>>

\* the owner of share k sends its public key in a HELLO
ManHello(k) ==
    /\ man # <<>>
    /\ k <= man[1].n
    /\ man[1].hello[k] = "none"
    /\ man' = <<[man[1] EXCEPT !.hello[k] =
                    IF find_in_manifest(man[1].manifest.registry, KeyT(Owners[k])) = None
                    THEN "not in manifest" ELSE "matched"]>>

\* main of unlock_asset walks the registry in order and stops at an error
ManUnlock(k) ==
    /\ man # <<>>
    /\ k <= man[1].n
    /\ man[1].unlock[k] = "none"
    /\ \A j \in 1 .. (k - 1) : man[1].unlock[j] = "read"
    /\ man' = <<[man[1] EXCEPT !.unlock[k] = unlock_entry(man[1].manifest.registry[k])]>>

ManNext ==
    \/ ManLock /\ UNCHANGED NotMan
    \/ \E k \in 1 .. Len(Owners) : ManHello(k) /\ UNCHANGED NotMan
    \/ \E k \in 1 .. Len(Owners) : ManUnlock(k) /\ UNCHANGED NotMan

SpecManifest == Init /\ [][ManNext]_vars

\* C29: every entry the Dealer writes carries share_index, modulus,
\* file_path, share_fingerprint, owner_alias and the owner's public key t
\* under the names the recovery paths read, so that the key of every owner
\* is matched by the Host and every entry is read by the unlock path.
C29_ManifestConsumable ==
    man # <<>> =>
        /\ \A k \in 1 .. man[1].n :
              {"share_index", "modulus", "file_path", "share_fingerprint",
               "owner_alias", "public_key_t"} \subseteq DOMAIN man[1].manifest.registry[k]
        /\ \A k \in 1 .. man[1].n : man[1].hello[k] \in {"none", "matched"}
        /\ \A k \in 1 .. man[1].n : man[1].unlock[k] \in {"none", "read"}

(***************************************************************************)
(* The receiving socket with its history: every arrival is recorded with   *)
(* what the step put on the wire and whether it changed the reassembly     *)
(* buffers or the receive queue; the ACKs leave the wire when they are     *)
(* delivered, so that an ACK on the wire after a step was sent by it or    *)
(* is still in flight.                                                     *)
(***************************************************************************)
NotDup == <<sgvars, chvars, hvars, pvars, netvars, lkvars, mgr, succ, man, tagvars, lat, rvars, rj, crt>>

\* a datagram arrives: any chunk, in any order, any number of times
DupDat ==
    /\ Len(recv_queue) + Len(got) < MaxDeliveries
    /\ \E d \in Inbound :
        /\ listen_dat(AddrR, d)
        /\ dup' = [seen |-> dup.seen \cup {<<d.src, d.msg_id, d.idx>>},
                   last |-> <<[d |-> d,
                               again |-> <<d.src, d.msg_id, d.idx>> \in dup.seen,
                               recorded |-> \E k \in 1 .. Len(processed_packets) :
                                   processed_packets[k] = <<d.src, d.msg_id, d.idx>>,
                               in_flight |-> \E a \in wire :
                                   a.dst = d.src /\ a.msg_id = d.msg_id /\ a.idx = d.idx,
                               acks |-> {<<a.dst, a.msg_id, a.idx>> :
                                   a \in {x \in wire' : x.kind = "ACK" /\ x.src = AddrR}},
                               same |-> /\ buffer_pool' = buffer_pool
                                        /\ meta_pool' = meta_pool
                                        /\ recv_queue' = recv_queue]>>]
    /\ UNCHANGED <<got, sendvars>>

\* the ACKs in flight reach their peers
DupAckLeaves ==
    /\ wire # {}
    /\ wire' = {}
    /\ dup' = [dup EXCEPT !.last = <<>>]
    /\ UNCHANGED <<sendvars, recvvars>>

DupAge == RcvAge /\ dup' = [dup EXCEPT !.last = <<>>]
DupRecv == RcvRecv /\ dup' = [dup EXCEPT !.last = <<>>]

DupNext ==
    \/ DupDat /\ UNCHANGED NotDup
    \/ DupAckLeaves /\ UNCHANGED NotDup
    \/ DupAge /\ UNCHANGED NotDup
    \/ DupRecv /\ UNCHANGED NotDup

SpecDup == Init /\ [][DupNext]_vars

\* the last arrival was answered with an ACK that carries its (msg_id, chunk_idx)
Answered ==
    <<dup.last[1].d.src, dup.last[1].d.msg_id, dup.last[1].d.idx>> \in dup.last[1].acks

\* C30, as stated: every DAT chunk that arrives is answered with an ACK
\* carrying its (msg_id, chunk_idx), and a chunk that is a duplicate of one
\* already seen from that peer changes neither the reassembly buffers nor the
\* receive queue.
C30_DuplicateAckedAndDiscarded ==
    dup.last # <<>> =>
        /\ Answered
        /\ dup.last[1].again => dup.last[1].same

\* C30, within the window: every DAT chunk that arrives is answered with an
\* ACK carrying its (msg_id, chunk_idx), and a duplicate of a chunk that is
\* still in processed_packets (seen less than 60 s before the last clean-up)
\* changes neither the reassembly buffers nor the receive queue.
C30_DuplicateInWindowDiscarded ==
    dup.last # <<>> =>
        /\ Answered
        /\ dup.last[1].again /\ dup.last[1].recorded => dup.last[1].same

\* a duplicate inside the window arrived after its first ACK had left the
\* wire, and was answered again
C30_Witness ==
    /\ dup.last # <<>>
    /\ dup.last[1].again
    /\ dup.last[1].recorded
    /\ ~dup.last[1].in_flight
    /\ dup.last[1].d.idx = 1
    /\ Answered
    /\ dup.last[1].same

(***************************************************************************)
(* The challenge as the loop of _derive_challenge / derive_challenge       *)
(* builds it from the bytes of the digest, in a ring of dimension ChN      *)
(* with ChTau nonzero coefficients asked for.  The digest has ChN \div 2   *)
(* bytes; any bytes can come out of SHAKE-256.                             *)
(***************************************************************************)
ChN == 6
ChTau == 3
ChByte == 0 .. (2 * ChN - 1)
Digests == [1 .. (ChN \div 2) -> ChByte]

RECURSIVE ChallengeLoop(_, _, _, _)
\* for i in range(len(digest)): the polynomial c and the weight after byte i
ChallengeLoop(digest, i, c, weight) ==
    IF i > Len(digest) \/ weight >= ChTau THEN c
    ELSE LET b == digest[i]
             idx == b % ChN
         IN IF c[idx + 1] = 0
            THEN ChallengeLoop(digest, i + 1,
                               [c EXCEPT ![idx + 1] = IF b % 2 = 1 THEN 1 ELSE 0 - 1],
                               weight + 1)
            ELSE ChallengeLoop(digest, i + 1, c, weight)

\* the part of _derive_challenge after the digest: c = [0] * N, then the loop
challenge_of_digest(digest) ==
    ChallengeLoop(digest, 1, [k \in 1 .. ChN |-> 0], 0)

Weight(c) == Cardinality({k \in 1 .. Len(c) : c[k] # 0})

DeriveCall ==
    /\ lat = <<>>
    /\ \E digest \in Digests :
        lat' = <<[digest |-> digest, c |-> challenge_of_digest(digest)]>>

DeriveNext == DeriveCall /\ UNCHANGED NotLat

SpecDerive == Init /\ [][DeriveNext]_vars

\* C31: the challenge is a polynomial of length N with coefficients in
\* {-1, 0, +1} and exactly tau nonzero coefficients, whatever bytes the
\* digest contains.
C31_ChallengeWeightExactlyTau ==
    lat # <<>> =>
        /\ Len(lat[1].c) = ChN
        /\ \A k \in 1 .. ChN : lat[1].c[k] \in {0 - 1, 0, 1}
        /\ Weight(lat[1].c) = ChTau

\* what the loop does guarantee: a ternary polynomial of length N with at
\* least one and at most tau nonzero coefficients
C31_TernaryAtMostTau ==
    lat # <<>> =>
        /\ Len(lat[1].c) = ChN
        /\ \A k \in 1 .. ChN : lat[1].c[k] \in {0 - 1, 0, 1}
        /\ Weight(lat[1].c) \in 1 .. ChTau

(***************************************************************************)
(* The challenge on the bytes.  The Host and every Participant call        *)
(* phase2_response with the bytes  hash || ts (8 bytes, little endian);    *)
(* the aggregator's derive_challenge is given message and timestamp apart. *)
(* The Participant gets hash, ts and w_sum from the BROAD_CHALLENGE        *)
(* payload (base64, JSON).  SHAKE-256 is stood for by a hash of the input  *)
(* bytes to one byte; the ring dimension is 1.                             *)
(***************************************************************************)
RECURSIVE ToBytesLE(_, _)
\* int.to_bytes(n, 'little'), for 0 <= v < 256^n
ToBytesLE(v, n) ==
    IF n = 0 THEN <<>> ELSE <<v % 256>> \o ToBytesLE(v \div 256, n - 1)

RECURSIVE FromBytesLE(_)
\* int.from_bytes(b, 'little')
FromBytesLE(b) ==
    IF b = <<>> THEN 0 ELSE Head(b) + 256 * FromBytesLE(Tail(b))

\* int(coeff).to_bytes(4, 'little', signed=True): two's complement
SignedLE4(v) ==
    IF v >= 0 THEN ToBytesLE(v, 4)
    ELSE [k \in 1 .. 4 |-> 255 - ToBytesLE((0 - v) - 1, 4)[k]]

RECURSIVE ShakeAbsorb(_)
ShakeAbsorb(input_data) ==
    IF input_data = <<>> THEN 1
    ELSE (167 * ShakeAbsorb(SubSeq(input_data, 1, Len(input_data) - 1))
          + input_data[Len(input_data)] + 13) % 256
\* first byte of SHAKE-256(input_data): a hash of the bytes and their order
ShakeBytes(input_data) ==
    LET h == ShakeAbsorb(input_data) IN 16 * (h % 16) + (h \div 16)

\* _derive_challenge and derive_challenge, on the bytes
derive_challenge(message, W_HighBits, timestamp) ==
    LET w_bytes == SignedLE4(W_HighBits)
        t_bytes == ToBytesLE(timestamp, 8)
        input_data == message \o w_bytes \o t_bytes
    IN IF ShakeBytes(input_data) % 2 = 1 THEN 1 ELSE 0 - 1

\* a parse that would take the timestamp from the last 4 bytes
parse_message_data_4(message_data) ==
    IF message_data.kind = "tuple"
    THEN [message |-> message_data.message, timestamp |-> message_data.ts]
    ELSE IF Len(message_data.bytes) >= 4
    THEN [message |-> SubSeq(message_data.bytes, 1, Len(message_data.bytes) - 4),
          timestamp |-> FromBytesLE(SubSeq(message_data.bytes,
                                           Len(message_data.bytes) - 3,
                                           Len(message_data.bytes)))]
    ELSE [message |-> message_data.bytes, timestamp |-> 0]

\* phase2_response, the parse of message_data: a pair (message, timestamp),
\* or bytes whose last 8 are the timestamp
parse_message_data(message_data) ==
    IF message_data.kind = "tuple"
    THEN [message |-> message_data.message, timestamp |-> message_data.ts]
    ELSE IF Len(message_data.bytes) >= 8
    THEN [message |-> SubSeq(message_data.bytes, 1, Len(message_data.bytes) - 8),
          timestamp |-> FromBytesLE(SubSeq(message_data.bytes,
                                           Len(message_data.bytes) - 7,
                                           Len(message_data.bytes)))]
    ELSE [message |-> message_data.bytes, timestamp |-> 0]

\* phase2_response up to the challenge: c from HighBits(global_Ay_sum)
phase2_challenge(message_data, global_Ay_sum) ==
    LET p == parse_message_data(message_data)
    IN derive_challenge(p.message, high_bits(global_Ay_sum, ALPHA, Q), p.timestamp)

RECURSIVE JsonDigits(_)
JsonDigits(v) == IF v < 10 THEN <<v>> ELSE Append(JsonDigits(v \div 10), v % 10)
\* json.dumps of an integer: its sign and decimal digits
JsonDumps(v) == [neg |-> v < 0, digits |-> JsonDigits(Abs(v))]
RECURSIVE JsonNumber(_)
JsonNumber(ds) ==
    IF ds = <<>> THEN 0 ELSE 10 * JsonNumber(SubSeq(ds, 1, Len(ds) - 1)) + ds[Len(ds)]
\* json.loads of it
JsonLoads(j) == IF j.neg THEN 0 - JsonNumber(j.digits) ELSE JsonNumber(j.digits)

RECURSIVE B64Groups(_)
\* the sextets of the bytes, three bytes (zero padded) to four sextets
B64Groups(b) ==
    IF b = <<>> THEN <<>>
    ELSE LET g == SubSeq(b \o <<0, 0>>, 1, 3)
             n == 65536 * g[1] + 256 * g[2] + g[3]
         IN <<n \div 262144, (n \div 4096) % 64, (n \div 64) % 64, n % 64>>
            \o B64Groups(SubSeq(b, 4, Len(b)))
\* base64.b64encode: the sextets and the number of '=' at the end
b64encode(b) == [sextets |-> B64Groups(b), pad |-> (3 - (Len(b) % 3)) % 3]
RECURSIVE B64Bytes(_)
B64Bytes(s) ==
    IF s = <<>> THEN <<>>
    ELSE LET n == 262144 * s[1] + 4096 * s[2] + 64 * s[3] + s[4]
         IN <<n \div 65536, (n \div 256) % 256, n % 256>> \o B64Bytes(SubSeq(s, 5, Len(s)))
\* base64.b64decode
b64decode(e) ==
    LET all == B64Bytes(e.sextets) IN SubSeq(all, 1, Len(all) - e.pad)

\* _check_phase1_complete: the package of BROAD_CHALLENGE
ChallengePkg(target_file_hash, ts, w_sum) ==
    [m_hash |-> b64encode(target_file_hash), ts |-> ts, w_sum |-> JsonDumps(w_sum)]

\* _check_phase1_complete: the Host's own phase2_response(msg, w_sum)
HostChallenge(target_file_hash, ts, w_sum) ==
    phase2_challenge([kind |-> "bytes", bytes |-> target_file_hash \o ToBytesLE(ts, 8)],
                     w_sum)

\* Participant, BROAD_CHALLENGE: phase2_response(msg, w_sum) from the payload
ParticipantChallenge(payload) ==
    LET m_hash == b64decode(payload.m_hash)
        w_sum == JsonLoads(payload.w_sum)
        msg == m_hash \o ToBytesLE(payload.ts, 8)
    IN phase2_challenge([kind |-> "bytes", bytes |-> msg], w_sum)

\* verify_final_signature with W_sum: c' = derive_challenge(message, HighBits(W_sum), ts)
AggregatorChallenge(message, ts, W_sum) ==
    derive_challenge(message, high_bits(W_sum, ALPHA, Q), ts)

HashBytes == {<<>>, <<7>>, <<255, 0>>, <<1, 2, 3>>, <<9, 8, 7, 6>>,
              <<0, 0, 0, 0, 0, 0, 0, 1>>, <<1, 0, 0, 0, 0, 0, 0, 0, 200>>}
ChTsVals == {0, 1, 255, 256, 65541, 1700000000}
ChWSums == {0, 1, GAMMA2, GAMMA2 + 1, ALPHA, 3 * GAMMA2 + 5, Q - GAMMA2, Q - 1}

ChallengeCall ==
    /\ lat = <<>>
    /\ \E h \in HashBytes, ts \in ChTsVals, W \in ChWSums :
        lat' = <<[hash |-> h, ts |-> ts, W |-> W,
                  host |-> HostChallenge(h, ts, W),
                  part |-> ParticipantChallenge(ChallengePkg(h, ts, W)),
                  agg |-> AggregatorChallenge(h, ts, W),
                  pair |-> phase2_challenge([kind |-> "tuple", message |-> h,
                                             ts |-> ts], W),
                  raw |-> derive_challenge(h, W, ts)]>>

ChallengeNext == ChallengeCall /\ UNCHANGED NotLat

SpecChallenge == Init /\ [][ChallengeNext]_vars

\* C32: for the same file hash, timestamp and aggregated W, the Host's own
\* signer, a Participant and the aggregator compute the same challenge, and
\* the pair (message, ts) gives the same challenge as the bytes message || ts8.
C32_SameChallengeEverywhere ==
    lat # <<>> =>
        /\ lat[1].host = lat[1].part
        /\ lat[1].host = lat[1].agg
        /\ lat[1].host = lat[1].pair

\* a timestamp of more than one byte after a hash of more than 8 bytes, and
\* a W whose HighBits give another challenge than W itself
C32_Witness ==
    /\ lat # <<>>
    /\ lat[1].ts = 65541
    /\ Len(lat[1].hash) = 9
    /\ lat[1].raw # lat[1].host
    /\ lat[1].host = lat[1].part
    /\ lat[1].host = lat[1].pair

(***************************************************************************)
(* A handshake that fails, on the SecureChannel of SpecChan.               *)
(***************************************************************************)
\* is_established
is_established(c) == c.session_key # None

\* C33: a handshake that fails a check (parse, signature, timestamp) returns
\* false and leaves session_key and peer_verified as they were; a channel
\* that had no key still has none and is not established.
C33_FailedHandshakeLeavesChannel ==
    [][(ch_last' # <<>> /\ ~ch_last'[1].ok) =>
            /\ ch' = ch
            /\ (~is_established(ch) => ~is_established(ch'))]_vars

\* a packet of the host with a good signature was refused for its timestamp
\* on a channel without a key, which still has none
C33_Witness ==
    /\ ch_last # <<>>
    /\ ~ch_last[1].ok
    /\ ch_last[1].h.parses
    /\ verify(ch_last[1].peer_pk, ch_last[1].h.payload, ch_last[1].h.sig)
    /\ Stale(ch_last[1].now, ch_last[1].h.payload.ts)
    /\ ~is_established(ch)
    /\ ~ch.peer_verified

(***************************************************************************)
(* Tampered shares.  The shares of an image, with the shape entries that   *)
(* the Dealer writes, are handed to reconstruct_from_memory after one of   *)
(* them was changed: a residue set to its modulus or to -1, the 'shape'    *)
(* entry changed, or the data cut by one coordinate.                       *)
(***************************************************************************)
Tamperings == {"none", "big", "negative", "shape", "length"}
TamperN == 4

\* the share dictionaries of an image: modulus, data, shape (h, w, c) and
\* original_shape (h, w)
ShareDicts(img, n) ==
    [i \in 1 .. n |->
        [modulus |-> Split(img, n)[i].modulus, data |-> Split(img, n)[i].data,
         shape |-> <<Len(img), 1, 1>>, original_shape |-> <<Len(img), 1>>]]

Tampered(shares, i, kind) ==
    CASE kind = "big" ->
            [shares EXCEPT ![i].data = [@ EXCEPT ![1] = shares[i].modulus]]
      [] kind = "negative" ->
            [shares EXCEPT ![i].data = [@ EXCEPT ![1] = 0 - 1]]
      [] kind = "shape" ->
            [shares EXCEPT ![i].shape = <<Len(shares[i].data) + 1, 1, 1>>]
      [] kind = "length" ->
            [shares EXCEPT ![i].data = SubSeq(@, 1, Len(@) - 1)]
      [] OTHER -> shares

\* reconstruct_from_memory, its checks and the numpy calls that can raise:
\* NoVal when an image is returned, the error otherwise
reconstruct_from_memory_error(shares_list) ==
    LET t == T_THRESHOLD
        selected_shares == SubSeq(shares_list, 1, t)
        share_shape == selected_shares[1].shape
    IN IF Len(shares_list) < t THEN "Insufficient shares"
       ELSE IF \E i \in 1 .. t : \E k \in 1 .. Len(selected_shares[i].data) :
                   selected_shares[i].data[k] >= selected_shares[i].modulus
       THEN "Security Alert"
       \* np.vstack(ys): the rows must have one length
       ELSE IF \E i \in 1 .. t :
                   Len(selected_shares[i].data) # Len(selected_shares[1].data)
       THEN "vstack"
       \* S_reconstructed.reshape(h, w, c)
       ELSE IF share_shape[1] * share_shape[2] * share_shape[3]
                   # Len(selected_shares[1].data)
       THEN "reshape"
       ELSE NoVal

TamperReconstruct ==
    /\ crt = <<>>
    /\ \E img \in Images, i \in 1 .. TamperN, kind \in Tamperings :
        crt' = <<[image |-> img, i |-> i, kind |-> kind,
                  error |-> reconstruct_from_memory_error(
                                Tampered(ShareDicts(img, TamperN), i, kind))]>>

TamperNext ==
    TamperReconstruct
    /\ UNCHANGED <<sgvars, chvars, hvars, pvars, netvars, lkvars, mgr, succ, man, dup, tagvars, lat, rvars, rj, uvars>>

SpecTamper == Init /\ [][TamperNext]_vars

\* C34: reconstruct_from_memory raises, and returns no image, when the
\* shapes of the shares do not all match or when a coordinate of a share is
\* not in [0, m_i).
C34_TamperedSharesRejected ==
    crt # <<>> => (crt[1].kind # "none" => crt[1].error # NoVal)

\* what the checks do reject: a coordinate >= m_i, or data of another
\* length, in one of the first t shares; untouched shares are accepted
C34_RejectedAmongFirstT ==
    crt # <<>> =>
        /\ (crt[1].kind \in {"big", "length"} /\ crt[1].i <= T_THRESHOLD)
                => crt[1].error # NoVal
        /\ crt[1].kind = "none" => crt[1].error = NoVal

(***************************************************************************)
(* The loop of LatticeSigner.sign.  A call draws a fresh y in every        *)
(* iteration and returns the first signature whose z passes the norm       *)
(* check.  The attempts are counted up to one more than SignCap.           *)
(***************************************************************************)
SignCap == 64
SignKeys == {"skH", "skA", "skBig"}

\* sign is called: attempts = 0
SignLoopStart ==
    /\ lat = <<>>
    /\ \E sk \in SignKeys, message \in SignMsgs :
        lat' = <<[sk |-> sk, message |-> message, attempts |-> 0, result |-> None]>>

\* one iteration of while True: attempts += 1, a y is drawn, and the
\* signature is returned or the loop continues
SignLoopAttempt ==
    /\ lat # <<>>
    /\ lat[1].result = None
    /\ \E y \in SignYVals :
        lat' = <<[lat[1] EXCEPT
                    !.attempts = IF @ > SignCap THEN @ ELSE @ + 1,
                    !.result = SignAttempt(lat[1].sk, lat[1].message, y)]>>

SignLoopNext ==
    \/ SignLoopStart /\ UNCHANGED NotLat
    \/ SignLoopAttempt /\ UNCHANGED NotLat

SpecSignLoop == Init /\ [][SignLoopNext]_vars

\* C35: LatticeSigner.sign makes at most a fixed number of attempts (64);
\* after them it has returned a signature or raised, it does not loop on.
C35_SignAttemptsCapped ==
    lat # <<>> => lat[1].attempts <= SignCap

\* with a key whose s1 is small, the first attempt is returned
C35_SmallKeyFirstAttempt ==
    (lat # <<>> /\ lat[1].sk # "skBig" /\ lat[1].attempts >= 1) =>
        /\ lat[1].attempts = 1
        /\ lat[1].result # None

(***************************************************************************)
(* The threads of the Host session.  Every entry point takes self.lock     *)
(* (`with self.lock`), which blocks while another thread holds it and is   *)
(* released when the block is left, also by return or by an exception.     *)
(* A handler that stores a value and then runs a phase check does so in    *)
(* two steps, so that another thread could step in between if the lock     *)
(* let it.                                                                 *)
(***************************************************************************)
\* a lock that would let every thread in
LockIgnored(l) == TRUE
\* threading.Lock: acquire succeeds only when no thread holds it
LockFree(l) == l = <<>>

LkVal(type) ==
    CASE type = "RES_COMMITMENT" -> Commitment(YSmall)
      [] type = "RES_RESPONSE" -> ZGood
      [] type = "RES_SHARE" -> RawShare
      [] OTHER -> 0

HostRest == <<target_manifest, my_commitment, my_y, my_z>>

\* create_invitation, before the lock: idx = len(self.managers), and
\* start_as_server starts the message thread of the new manager
LkInviteIdx ==
    /\ thr[0].pc = "idle"
    /\ Len(managers) < RoundSlots
    /\ thr' = [thr EXCEPT ![0].pc = "inv_wait", ![0].idx = Len(managers)]
    /\ UNCHANGED <<lock, hvars>>

\* create_invitation: with self.lock
LkInviteLock ==
    /\ thr[0].pc = "inv_wait"
    /\ LockFree(lock)
    /\ lock' = <<0>>
    /\ thr' = [thr EXCEPT ![0].pc = "inv_body"]
    /\ UNCHANGED hvars

\* create_invitation: managers.append(mgr); peers_data[idx] = {'verified': False}
LkInviteBody ==
    /\ thr[0].pc = "inv_body"
    /\ managers' = Append(managers, [session_key |-> None, established |-> FALSE])
    /\ peers_data' =
         LET fresh == [verified |-> FALSE, pk |-> NoVal, w |-> None, z |-> None,
                       share |-> None]
         IN IF thr[0].idx + 1 <= Len(peers_data)
            THEN [peers_data EXCEPT ![thr[0].idx + 1] = fresh]
            ELSE Append(peers_data, fresh)
    /\ h_out' = <<>>
    /\ lock' = <<>>
    /\ thr' = [thr EXCEPT ![0] = LkResting]
    /\ UNCHANGED <<state, HostRest>>

\* start_recovery: with self.lock
LkStartLock ==
    /\ thr[0].pc = "idle"
    /\ LockFree(lock)
    /\ lock' = <<0>>
    /\ thr' = [thr EXCEPT ![0].pc = "start_body"]
    /\ UNCHANGED hvars

\* start_recovery: the body, then the lock is released
LkStartBody ==
    /\ thr[0].pc = "start_body"
    /\ start_recovery
    /\ lock' = <<>>
    /\ thr' = [thr EXCEPT ![0] = LkResting]

\* the message thread of slot t runs once start_as_server was called
ThreadRuns(t) ==
    \/ t <= Len(managers)
    \/ thr[0].pc \in {"inv_wait", "inv_body"} /\ thr[0].idx + 1 = t

\* _handle_message(idx, msg_type, payload): with self.lock
LkHandleLock(t) ==
    /\ ThreadRuns(t)
    /\ thr[t].pc = "idle"
    /\ LockFree(lock)
    /\ lock' = <<t>>
    /\ \E type \in InnerTypes :
        \E pk \in (IF type = "HELLO" THEN {PartPk(t), "pkX"} ELSE {NoVal}) :
            thr' = [thr EXCEPT ![t] = [LkResting EXCEPT !.pc = "handle", !.idx = t,
                                       !.type = type, !.pk = pk,
                                       !.val = LkVal(type)]]
    /\ UNCHANGED hvars

\* _handle_message: the branch of msg_type up to its phase check
LkHandle(t) ==
    /\ thr[t].pc = "handle"
    /\ IF t > Len(peers_data)
       THEN \* peers_data[idx] raises KeyError: logged, the lock is released
            /\ UNCHANGED hvars
            /\ lock' = <<>>
            /\ thr' = [thr EXCEPT ![t] = LkResting]
       ELSE IF thr[t].type = "RES_COMMITMENT" /\ ~peers_data[t].verified
       THEN /\ UNCHANGED hvars
            /\ lock' = <<>>
            /\ thr' = [thr EXCEPT ![t] = LkResting]
       ELSE IF thr[t].type \in {"RES_COMMITMENT", "RES_RESPONSE", "RES_SHARE"}
       THEN LET pd == CASE thr[t].type = "RES_COMMITMENT" ->
                              [peers_data EXCEPT ![t].w = Some(thr[t].val)]
                        [] thr[t].type = "RES_RESPONSE" ->
                              [peers_data EXCEPT ![t].z = Some(thr[t].val)]
                        [] OTHER ->
                              [peers_data EXCEPT ![t].share = Some(thr[t].val)]
            IN /\ peers_data' = pd
               /\ thr' = [thr EXCEPT ![t].pc = "check",
                                     ![t].snap = <<[peers_data |-> pd, state |-> state,
                                                    managers |-> managers]>>]
               /\ UNCHANGED <<lock, state, managers, h_out, HostRest>>
       ELSE /\ handle_message(t, thr[t].type, thr[t].pk, thr[t].val, managers)
            /\ lock' = <<>>
            /\ thr' = [thr EXCEPT ![t] = LkResting]

\* _handle_message: _check_phaseN_complete, then the lock is released
LkCheck(t) ==
    /\ thr[t].pc = "check"
    /\ CASE thr[t].type = "RES_COMMITMENT" ->
              /\ check_phase1_complete(peers_data, managers)
              /\ UNCHANGED <<peers_data, managers, target_manifest, my_commitment>>
         [] thr[t].type = "RES_RESPONSE" ->
              /\ check_phase2_complete(peers_data, managers)
              /\ UNCHANGED <<peers_data, managers, HostRest>>
         [] OTHER ->
              /\ check_phase3_complete(peers_data)
              /\ UNCHANGED <<peers_data, managers, HostRest>>
    /\ lock' = <<>>
    /\ thr' = [thr EXCEPT ![t] = LkResting]

NotLk == <<sgvars, chvars, pvars, netvars, mgr, succ, rvars, rj, uvars, crt, lat, tagvars, man, dup>>

LkNext ==
    \/ LkInviteIdx /\ UNCHANGED NotLk
    \/ LkInviteLock /\ UNCHANGED NotLk
    \/ LkInviteBody /\ UNCHANGED NotLk
    \/ LkStartLock /\ UNCHANGED NotLk
    \/ LkStartBody /\ UNCHANGED NotLk
    \/ \E t \in 1 .. RoundSlots : LkHandleLock(t) /\ UNCHANGED NotLk
    \/ \E t \in 1 .. RoundSlots : LkHandle(t) /\ UNCHANGED NotLk
    \/ \E t \in 1 .. RoundSlots : LkCheck(t) /\ UNCHANGED NotLk

SpecLock == Init /\ [][LkNext]_vars

\* the threads that are inside a `with self.lock` block
Inside == {t \in LkThreads : thr[t].pc \in {"inv_body", "start_body", "handle", "check"}}

NONCE_SIZE == 12
TAG_SIZE == 16

GcmStream(key, nonce, i) == (37 * key + 11 * nonce[1] + nonce[NONCE_SIZE] + 5 * i) % 256
GcmEncrypt(key, nonce, plaintext) ==
    [i \in 1 .. Len(plaintext) |-> (plaintext[i] + GcmStream(key, nonce, i)) % 256]
GcmDecrypt(key, nonce, ciphertext) ==
    [i \in 1 .. Len(ciphertext) |-> (ciphertext[i] - GcmStream(key, nonce, i)) % 256]
GcmTag(key, nonce, ciphertext) ==
    [i \in 1 .. TAG_SIZE |-> <<key, nonce, ciphertext, i>>]

\* encrypt_traffic: raises without a session key, else nonce + tag + ciphertext
encrypt_traffic(session_key, plaintext_bytes, nonce) ==
    IF session_key = None THEN [raised |-> TRUE, bytes |-> <<>>]
    ELSE LET ciphertext == GcmEncrypt(Val(session_key), nonce, plaintext_bytes)
         IN [raised |-> FALSE,
             bytes |-> nonce \o GcmTag(Val(session_key), nonce, ciphertext) \o ciphertext]

\* a decrypt_traffic that would decrypt without verifying the tag
decrypt_traffic_unverified(session_key, encrypted_bytes) ==
    IF session_key = None \/ Len(encrypted_bytes) < NONCE_SIZE + TAG_SIZE THEN None
    ELSE Some(GcmDecrypt(Val(session_key), SubSeq(encrypted_bytes, 1, NONCE_SIZE),
                         SubSeq(encrypted_bytes, NONCE_SIZE + TAG_SIZE + 1,
                                Len(encrypted_bytes))))

\* decrypt_traffic: None without a session key, for fewer than 28 bytes and
\* when decrypt_and_verify raises
decrypt_traffic_bytes(session_key, encrypted_bytes) ==
    IF session_key = None \/ Len(encrypted_bytes) < NONCE_SIZE + TAG_SIZE THEN None
    ELSE LET nonce == SubSeq(encrypted_bytes, 1, NONCE_SIZE)
             tag == SubSeq(encrypted_bytes, NONCE_SIZE + 1, NONCE_SIZE + TAG_SIZE)
             ciphertext == SubSeq(encrypted_bytes, NONCE_SIZE + TAG_SIZE + 1,
                                  Len(encrypted_bytes))
         IN IF tag = GcmTag(Val(session_key), nonce, ciphertext)
            THEN Some(GcmDecrypt(Val(session_key), nonce, ciphertext))
            ELSE None

Plaintexts == {<<>>, <<5>>, <<200, 0, 77>>}
Nonces == {[i \in 1 .. NONCE_SIZE |-> 0], [i \in 1 .. NONCE_SIZE |-> 20 * i]}
TrafficKeys == {None, Some(1), Some(2)}

\* byte j of the packet changed: a nonce or ciphertext byte to the next
\* value, a tag byte to the tag byte of another ciphertext
Altered(bytes, j) ==
    IF j > NONCE_SIZE /\ j <= NONCE_SIZE + TAG_SIZE
    THEN [bytes EXCEPT ![j] = <<@[1], @[2], @[3] \o <<0>>, @[4]>>]
    ELSE [bytes EXCEPT ![j] = (@ + 1) % 256]

\* one packet is sealed on a channel and opened on another: as it is, with
\* one byte changed, or cut to fewer than 28 bytes
TrafficCall ==
    /\ lat = <<>>
    /\ \E k_enc \in TrafficKeys, k_dec \in TrafficKeys, p \in Plaintexts, nonce \in Nonces :
        LET e == encrypt_traffic(k_enc, p, nonce)
        IN \/ lat' = <<[p |-> p, k_enc |-> k_enc, k_dec |-> k_dec, kind |-> "whole", nonce |-> nonce, at |-> 0,
                        raised |-> e.raised,
                        out |-> IF e.raised THEN None
                                ELSE decrypt_traffic_bytes(k_dec, e.bytes)]>>
           \/ /\ ~e.raised
              /\ \E j \in 1 .. Len(e.bytes) :
                    lat' = <<[p |-> p, k_enc |-> k_enc, k_dec |-> k_dec,
                              kind |-> "altered", nonce |-> nonce, at |-> j,
                              raised |-> FALSE,
                              out |-> decrypt_traffic_bytes(k_dec, Altered(e.bytes, j))]>>
           \/ /\ ~e.raised
              /\ \E n \in {0, NONCE_SIZE, NONCE_SIZE + TAG_SIZE - 1} :
                    lat' = <<[p |-> p, k_enc |-> k_enc, k_dec |-> k_dec,
                              kind |-> "short", nonce |-> nonce, at |-> n,
                              raised |-> FALSE,
                              out |-> decrypt_traffic_bytes(k_dec, SubSeq(e.bytes, 1, n))]>>

TrafficNext == TrafficCall /\ UNCHANGED NotLat

SpecTraffic == Init /\ [][TrafficNext]_vars

\* C37: decrypt_traffic(encrypt_traffic(p)) = p on channels holding the same
\* key; decrypt_traffic returns none when the channel has no session key,
\* when the input is shorter than 28 bytes, or when a byte of nonce, tag or
\* ciphertext was changed; encrypt_traffic raises when no session key is set.
C37_TrafficRoundTrip ==
    lat # <<>> =>
        LET c == lat[1] IN
        /\ c.raised <=> c.k_enc = None
        /\ (~c.raised /\ c.kind = "whole" /\ c.k_dec = c.k_enc) => c.out = Some(c.p)
        /\ c.k_dec = None => c.out = None
        /\ c.kind = "short" => c.out = None
        /\ c.kind = "altered" => c.out = None

\* the empty plaintext came back through a channel with the same key
C37_Witness ==
    /\ lat # <<>>
    /\ lat[1].kind = "whole"
    /\ lat[1].k_enc = Some(2)
    /\ lat[1].k_dec = Some(2)
    /\ lat[1].p = <<>>
    /\ lat[1].out = Some(<<>>)

(***************************************************************************)
(* One manager (P2PManager or LanP2PManager) with its table self.peers,    *)
(* keyed by the address of the sender.  Any datagram may arrive from any   *)
(* address; the session installs keys on channels through the handshake    *)
(* calls.  mgr.opened remembers the addresses whose SECURE packet was      *)
(* opened and handed to the callback.                                      *)
(***************************************************************************)
MgrAddrs == {AddrS, AddrX}
MgrKinds == {"p2p", "lan"}
\* what a SECURE packet decrypts to under the right key: a JSON object, bytes
\* that are not JSON, or nothing (an empty plaintext)
Inners == {"json", "notjson", "empty"}
MgrPackets ==
    [outer : {"HELLO", "HANDSHAKE", "PING"}, key : {None}, inner : {"json"}]
        \cup [outer : {"SECURE"}, key : {Some(k) : k \in SessionKeys}, inner : Inners]

\* _get_or_create_channel
get_or_create_channel(peers, addr) ==
    IF addr \in DOMAIN peers THEN peers
    ELSE [a \in DOMAIN peers \cup {addr} |->
            IF a = addr THEN [session_key |-> None, established |-> FALSE]
            ELSE peers[a]]

\* the tag of a SECURE packet verifies under the key of the channel
TagVerifies(channel, pkt) == pkt.key = channel.session_key

\* a message loop that would hand over the inner message whatever the tag
message_loop_untagged(kind, peers, addr, pkt) ==
    LET ps == get_or_create_channel(peers, addr)
    IN IF pkt.outer = "SECURE" /\ ps[addr].session_key # None /\ pkt.inner = "json"
       THEN [peers |-> [ps EXCEPT ![addr].established = TRUE], callback |-> <<"inner">>]
       ELSE [peers |-> ps, callback |-> <<>>]

\* _message_loop of P2PManager and of LanP2PManager for one datagram from
\* addr: self.peers afterwards and what the callback was given
message_loop(kind, peers, addr, pkt) ==
    LET ps == get_or_create_channel(peers, addr)
    IN IF pkt.outer = "HELLO"
       THEN [peers |-> ps, callback |-> IF kind = "lan" THEN <<"HELLO">> ELSE <<>>]
       ELSE IF pkt.outer = "HANDSHAKE"
       THEN [peers |-> ps, callback |-> <<"HANDSHAKE">>]
       ELSE IF pkt.outer = "SECURE"
       THEN IF ps[addr].session_key = None THEN [peers |-> ps, callback |-> <<>>]
            ELSE IF ~TagVerifies(ps[addr], pkt) \/ pkt.inner = "empty"
            THEN [peers |-> ps, callback |-> <<>>]
            ELSE IF pkt.inner = "notjson" THEN [peers |-> ps, callback |-> <<>>]
            ELSE [peers |-> [ps EXCEPT ![addr].established = TRUE],
                  callback |-> <<"inner">>]
       ELSE [peers |-> ps, callback |-> <<>>]

\* send_secure_message(msg_type, data, target_addr) of a server: the
\* addresses a packet is sent to (none when it returns False early)
send_secure_message_to(peers, dest) ==
    IF dest \notin DOMAIN peers THEN {}
    ELSE IF peers[dest].session_key = None THEN {}
    ELSE {dest}

\* broadcast
broadcast_to(peers) ==
    UNION {send_secure_message_to(peers, a) : a \in {x \in DOMAIN peers : peers[x].established}}

MgrStart ==
    /\ mgr.kind = NoVal
    /\ \E kind \in MgrKinds : mgr' = [mgr EXCEPT !.kind = kind]

MgrRecv ==
    /\ mgr.kind # NoVal
    /\ \E addr \in MgrAddrs, pkt \in MgrPackets :
        LET r == message_loop(mgr.kind, mgr.peers, addr, pkt)
        IN mgr' = [mgr EXCEPT
                     !.peers = r.peers,
                     !.opened = IF r.callback = <<"inner">> THEN @ \cup {addr} ELSE @,
                     !.last = <<[op |-> "recv", addr |-> addr, pkt |-> pkt,
                                 key |-> IF addr \in DOMAIN mgr.peers
                                         THEN mgr.peers[addr].session_key ELSE None,
                                 callback |-> r.callback, sent |-> {},
                                 result |-> FALSE]>>]

\* the session installs a key on the channel of addr: send_handshake_to_peer
\* (setup_host_session_signed) or an accepted HANDSHAKE
MgrInstallKey ==
    /\ mgr.kind # NoVal
    /\ \E addr \in MgrAddrs, k \in SessionKeys :
        mgr' = [mgr EXCEPT
                  !.peers = [get_or_create_channel(mgr.peers, addr)
                                EXCEPT ![addr].session_key = Some(k)],
                  !.last = <<>>]

MgrSend ==
    /\ mgr.kind # NoVal
    /\ \E dest \in MgrAddrs, acked \in BOOLEAN :
        LET sent == send_secure_message_to(mgr.peers, dest)
        IN mgr' = [mgr EXCEPT
                     !.last = <<[op |-> "send", addr |-> dest,
                                 pkt |-> [outer |-> "SECURE", key |-> None,
                                          inner |-> "json"],
                                 key |-> None, callback |-> <<>>, sent |-> sent,
                                 result |-> sent # {} /\ acked]>>]

MgrBroadcast ==
    /\ mgr.kind # NoVal
    /\ mgr' = [mgr EXCEPT
                 !.last = <<[op |-> "broadcast", addr |-> AddrR,
                             pkt |-> [outer |-> "SECURE", key |-> None,
                                      inner |-> "json"],
                             key |-> None, callback |-> <<>>,
                             sent |-> broadcast_to(mgr.peers), result |-> FALSE]>>]

NotMgr == <<sgvars, chvars, hvars, pvars, netvars, lkvars, succ, rvars, rj, uvars, crt, lat,
            tagvars, man, dup>>

MgrNext ==
    \/ MgrStart /\ UNCHANGED NotMgr
    \/ MgrRecv /\ UNCHANGED NotMgr
    \/ MgrInstallKey /\ UNCHANGED NotMgr
    \/ MgrSend /\ UNCHANGED NotMgr
    \/ MgrBroadcast /\ UNCHANGED NotMgr

SpecMgr == Init /\ [][MgrNext]_vars

\* C38: the inner message of a SECURE packet reaches the callback only if
\* the channel of the sender holds a session key and the tag verifies;
\* established is true only for a peer from which such a message came;
\* broadcast sends only to peers whose flag is true; send_secure_message
\* sends nothing and returns False for an unknown peer or a channel
\* without a key.
C38_SecureGatesTheCallback ==
    /\ \A a \in DOMAIN mgr.peers : mgr.peers[a].established => a \in mgr.opened
    /\ mgr.last # <<>> =>
        LET e == mgr.last[1] IN
        /\ (e.op = "recv" /\ e.callback = <<"inner">>) =>
               /\ e.pkt.outer = "SECURE"
               /\ e.key # None
               /\ e.pkt.key = e.key
        /\ (e.op = "recv" /\ e.pkt.outer = "SECURE" /\ e.callback # <<>>) =>
               e.callback = <<"inner">>
        /\ e.op = "broadcast" =>
               \A a \in e.sent : a \in DOMAIN mgr.peers /\ mgr.peers[a].established
        /\ (e.op = "send" /\ (e.addr \notin DOMAIN mgr.peers
                                \/ mgr.peers[e.addr].session_key = None)) =>
               e.sent = {} /\ ~e.result

\* a broadcast went to the one peer whose SECURE packet was opened, while
\* the other peer holds a key but has sent nothing that verified
C38_Witness ==
    /\ mgr.last # <<>>
    /\ mgr.last[1].op = "broadcast"
    /\ mgr.last[1].sent = {AddrS}
    /\ AddrX \in DOMAIN mgr.peers
    /\ mgr.peers[AddrX].session_key # None
    /\ ~mgr.peers[AddrX].established

(***************************************************************************)
(* One challenge per round, on the Host session of SpecRound.              *)
(***************************************************************************)
\* C39: the Host issues at most one BROAD_CHALLENGE per completed phase-1
\* round: once the challenge is out (state WAITING_RESPONSES), a duplicate
\* or late RES_COMMITMENT causes no second BROAD_CHALLENGE.
C39_OneChallengePerRound ==
    [][~(state = WAITING_RESPONSES /\ Sent(h_out', "BROAD_CHALLENGE"))]_vars

(***************************************************************************)
(* The end of a recovery.  The Host session of Spec, with well-formed      *)
(* packets from the invited peers (any type, any order, any number of      *)
(* times) and a count of the calls of on_success.                          *)
(***************************************************************************)
FinPackets(idx) ==
    {Clear(t, pk) : t \in {"HELLO", "HANDSHAKE"}, pk \in {PartPk(idx)}}
    \cup {Secure(managers[idx].session_key, "RES_COMMITMENT", NoVal,
                 Commitment(YSmall), 0, None),
          Secure(managers[idx].session_key, "RES_RESPONSE", NoVal, ZGood, 0, None)}
    \cup {Secure(managers[idx].session_key, "RES_SHARE", NoVal, val, 0, None) :
             val \in ShareVals}

\* _check_phase3_complete reaches on_success(img): every active peer has a
\* share and reconstruct_from_memory returned
CallsOnSuccess(pd) ==
    /\ \A i \in Active(pd) : pd[i].share # None
    /\ reconstruct_from_memory(ActiveShares(pd))

FinInvite == create_invitation /\ UNCHANGED succ
FinStart == start_recovery /\ UNCHANGED succ
FinDeliver(idx) ==
    /\ idx <= Len(managers)
    /\ \E pkt \in FinPackets(idx) :
        /\ mgr_message_loop(idx, pkt)
        /\ succ' = IF /\ Opens(idx, pkt)
                      /\ pkt.type = "RES_SHARE"
                      /\ CallsOnSuccess(peers_data')
                   THEN (IF succ < 2 THEN succ + 1 ELSE succ)
                   ELSE succ

NotFin == <<sgvars, chvars, pvars, netvars, lkvars, mgr, rvars, rj, uvars, crt, lat,
            tagvars, man, dup>>

FinNext ==
    \/ FinInvite /\ UNCHANGED NotFin
    \/ FinStart /\ UNCHANGED NotFin
    \/ \E idx \in Slots : FinDeliver(idx) /\ UNCHANGED NotFin

SpecFin == Init /\ [][FinNext]_vars

\* C40: FINISHED is absorbing and success is reported once.  state becomes
\* FINISHED only in a step that calls on_success after reconstruct_from_memory
\* returned an image; once FINISHED no later step changes state; on_success
\* is called at most once per session.  Only start_recovery broadcasts
\* REQ_COMMITMENT, so every other step is the handling of a message.
C40_FinishedAbsorbing ==
    [][/\ (state = FINISHED /\ ~Sent(h_out', "REQ_COMMITMENT"))
            => state' = FINISHED
       /\ (state # FINISHED /\ state' = FINISHED) => CallsOnSuccess(peers_data')
       /\ succ' # succ => succ = 0]_vars
=============================================================================
